---- MODULE Spec2Model ----
\* A model of schoolutils' grade calculation run (SimpleUI.calculate_grades in
\* schoolutils/grading/ui.py) over the storage layer of schoolutils/grading/db.py.
\*
\* Python values are modelled as strings: "None", "0", "False" and "" are the
\* falsy ones, "5" is a truthy number and "F" a truthy string.  NULL is what
\* SQLite stores in a column that an INSERT leaves out.  Row ids are integers,
\* and a Python id of None is modelled as NoId (equally falsy, never a rowid).
EXTENDS Integers, Sequences, FiniteSets, TLC

\* ------------------------------------------------------------------ bounds
MaxProposals == 2   \* longest proposal list the user function returns
MaxRuns == 2        \* successive calculate_grades runs on one database
MaxLen == 3         \* entries of a list handed to an average
MaxPoints == 4      \* entries of a list handed to points_to_weights

\* ---------------------------------------------------------------- universe
NoId == 0
NULL == "NULL"
CourseId == 1       \* self.course_id, the selected course
OtherCourse == 2
Roster == <<1, 2>>  \* select_students(course_id=CourseId), in result order
Students == {Roster[i] : i \in 1..Len(Roster)}

Max(S) == CHOOSE x \in S : \A y \in S : y <= x

\* ------------------------------------------------------------- db.py layer
\* Python truth value, as tested by `if v:` and `not v`.
PyTruthy(v) == v \notin {"", "None", "0", "False"}

\* make_values_clause keeps a field only when its value is truthy; a field
\* left out of the INSERT is stored as NULL.  This is the stored column value.
make_values_clause(v) == IF PyTruthy(v) THEN v ELSE NULL

\* rowid SQLite gives the next inserted row (INTEGER PRIMARY KEY), which
\* last_insert_rowid then returns.
last_insert_rowid(rows) == IF rows = {} THEN 1 ELSE Max({r.id : r \in rows}) + 1

ensure_unique_first(ids) ==
  IF ids = {} THEN [err |-> "NoRecordsFound", id |-> NoId]
  ELSE [err |-> "", id |-> CHOOSE i \in ids : \A j \in ids : i <= j]

\* ensure_unique over the ids (rows[0][0]) of a result set.
ensure_unique(ids) ==
  IF ids = {} THEN [err |-> "NoRecordsFound", id |-> NoId]
  ELSE IF Cardinality(ids) > 1 THEN [err |-> "MultipleRecordsFound", id |-> NoId]
  ELSE [err |-> "", id |-> CHOOSE i \in ids : TRUE]

\* select_assignments(course_id=..., name=...): make_constraint_clause drops a
\* constraint whose value is falsy.
select_assignments(A, course_id, name) ==
  {a.id : a \in {b \in A : /\ (course_id # NoId => b.course_id = course_id)
                           /\ (PyTruthy(name) => b.name = name)}}

\* create_assignment: INSERT with the truthy fields, returns the new rowid.
create_assignment(A, course_id, name, weight) ==
  A \cup {[id |-> last_insert_rowid(A), course_id |-> course_id, name |-> name,
           weight |-> make_values_clause(weight)]}

\* select_grades(student_id=..., assignment_id=...): grades joined with their
\* assignment (and student) rows.
select_grades(G, A, student_id, assignment_id) ==
  {g.id : g \in {h \in G : /\ \E a \in A : a.id = h.assignment_id
                           /\ h.student_id \in Students
                           /\ (student_id # NoId => h.student_id = student_id)
                           /\ (assignment_id # NoId => h.assignment_id = assignment_id)}}

\* create_or_update_grade: INSERT OR REPLACE; with a grade_id the row of that
\* id is replaced, without one a new row is inserted.
create_or_update_grade(G, grade_id, assignment_id, student_id, value) ==
  LET row(id) == [id |-> id, assignment_id |-> assignment_id,
                  student_id |-> student_id, value |-> make_values_clause(value)]
  IN IF grade_id # NoId
       THEN {g \in G : g.id # grade_id} \cup {row(grade_id)}
       ELSE G \cup {row(last_insert_rowid(G))}

\* update_grade is called by ui.py but is not part of the db.py at hand: it
\* sets the value of the grade with the given id in place.
update_grade(G, grade_id, value) ==
  {IF g.id = grade_id THEN [g EXCEPT !.value = value] ELSE g : g \in G}

\* select_grades_for_course_members is likewise called but not at hand: one
\* row per (course member, course assignment, grade), with a row of
\* grade_id NoId and value NULL where the student has no grade.
select_grades_for_course_members(A, G, course_id) ==
  LET CA == {a \in A : a.course_id = course_id}
      Row(a, s, gid, v) == [assignment_id |-> a.id, assignment_name |-> a.name,
                            weight |-> a.weight, grade_id |-> gid,
                            student_id |-> s, value |-> v]
  IN UNION {UNION {LET GS == {g \in G : g.assignment_id = a.id /\ g.student_id = s}
                   IN IF GS = {} THEN {Row(a, s, NoId, NULL)}
                      ELSE {Row(a, s, g.id, g.value) : g \in GS}
                   : s \in Students} : a \in CA}

\* --------------------------------------------- ui.py: save_calculated_grade
\* A proposal is the keyword arguments of save_calculated_grade after the
\* defaults are bound: name '' and value '' when the key is absent, grade_id
\* and assignment_id None, weight 'CALC'.
Names == {"", "Final", "Paper"}
Values == {"", "None", "0", "False", "5", "F"}
Weights == {"CALC", "1"}
Proposals == [name : Names, value : Values, grade_id : {NoId, 1, 2},
              assignment_id : {NoId, 1, 2}, weight : Weights]

ValidateNoIdentifierCheck(p) ==
  IF p.value = "None" THEN "MissingValue" ELSE ""

\* Lines 1045-1048: the two ValueErrors, in the order the code tests them.
Validate(p) ==
  IF ~PyTruthy(p.name) /\ ~(p.assignment_id # NoId \/ p.grade_id # NoId)
    THEN "MissingIdentifier"
  ELSE IF p.value = "None" THEN "MissingValue"
  ELSE ""

TakesGradeBranchOnlyAlone(p) ==
  p.grade_id # NoId /\ ~PyTruthy(p.name) /\ p.assignment_id = NoId

\* Line 1050: `if grade_id:` is tested before name and assignment_id are used.
TakesGradeBranch(p) == p.grade_id # NoId

ResolveAssignmentAlwaysCreate(A, course_id, p) ==
  IF p.assignment_id # NoId
    THEN [err |-> "", A |-> A, id |-> p.assignment_id, calls |-> <<>>]
  ELSE [err |-> "", A |-> create_assignment(A, course_id, p.name, p.weight),
        id |-> last_insert_rowid(A),
        calls |-> <<"select_assignments", "create_assignment">>]

\* Lines 1057-1072: the assignment a proposal without grade_id is stored under.
ResolveAssignment(A, course_id, p) ==
  IF p.assignment_id # NoId
    THEN [err |-> "", A |-> A, id |-> p.assignment_id, calls |-> <<>>]
  ELSE LET u == ensure_unique(select_assignments(A, course_id, p.name))
       IN IF u.err = "NoRecordsFound"
            THEN [err |-> "", A |-> create_assignment(A, course_id, p.name, p.weight),
                  id |-> last_insert_rowid(A),
                  calls |-> <<"select_assignments", "create_assignment">>]
          ELSE [err |-> u.err, A |-> A, id |-> u.id,
                calls |-> <<"select_assignments">>]

FindGradeNever(G, A, student_id, assignment_id) == [err |-> "", id |-> NoId]

\* Lines 1075-1081: the student's existing grade for the assignment, if any.
FindGrade(G, A, student_id, assignment_id) ==
  LET u == ensure_unique(select_grades(G, A, student_id, assignment_id))
  IN IF u.err = "NoRecordsFound" THEN [err |-> "", id |-> NoId] ELSE u

\* save_calculated_grade(student_id, **p) on the database (A, G): the error it
\* raises ("" when it returns), the database it leaves, the assignment the
\* grade was stored under and the db.py calls it made.
save_calculated_grade(A, G, course_id, student_id, p) ==
  LET Fail(e, A1, c) == [err |-> e, A |-> A1, G |-> G, aid |-> NoId, calls |-> c]
  IN IF Validate(p) # "" THEN Fail(Validate(p), A, <<>>)
     ELSE IF TakesGradeBranch(p)
       THEN [err |-> "", A |-> A, G |-> update_grade(G, p.grade_id, p.value),
             aid |-> NoId, calls |-> <<"update_grade">>]
     ELSE LET r == ResolveAssignment(A, course_id, p)
          IN IF r.err # "" THEN Fail(r.err, r.A, r.calls)
             ELSE LET f == FindGrade(G, r.A, student_id, r.id)
                      c == r.calls \o <<"select_grades">>
                  IN IF f.err # "" THEN Fail(f.err, r.A, c)
                     ELSE [err |-> "", A |-> r.A,
                           G |-> create_or_update_grade(G, f.id, r.id, student_id, p.value),
                           aid |-> r.id,
                           calls |-> c \o <<"create_or_update_grade">>]

\* ------------------------------------------------ ui.py: calculate_grades
VARIABLES
  assignments,  \* rows of the assignments table: [id, course_id, name, weight]
  grades,       \* rows of the grades table: [id, assignment_id, student_id, value]
  pc,           \* "idle", "loop" (next student), "saving", "done", "raised"
  run,          \* number of calculate_grades runs started
  idx,          \* position of the current student in Roster
  pending,      \* calculated_grades of the current student not yet saved
  all_grades,   \* the rows fetched once, before the loop over the students
  memo,         \* what calc_func does for each student, once it was called
  calc_input,   \* the rows handed to calc_func by the last call
  last,         \* the step taken last: the call, its student, proposal and outcome
  invoked,      \* students calc_func was called for in this run
  raised_for,   \* students for whom calc_func raised in this run
  nprop,        \* student -> number of proposals calc_func returned in this run
  nsaved,       \* student -> number of proposals saved in this run
  created,      \* names of the assignments created in this run, in order
  auto_created, \* ids of the assignments created with weight 'CALC' by any run
  written,      \* <<student, assignment>> pairs a grade was stored for in this run
  before,       \* the tables as they were when this run started
  entered_prev, \* the entered rows the previous run started from
  course,       \* the selected course: its number, semester and year
  user_calculators, \* the names defined by the user's calculators.py
  call,         \* the last call of a calculator helper: its arguments and result
  ui,           \* the SimpleUI object: its connection and selection, and the database
  table         \* edit_table: its editable_rows and the command applied last

vars == <<assignments, grades, pc, run, idx, pending, all_grades, memo,
          calc_input, last,
          invoked, raised_for, nprop, nsaved, created, auto_created, written,
          before, entered_prev, course, user_calculators, call, ui, table>>
env == <<course, user_calculators, call, ui, table>>

\* Strings that the code takes apart are sequences of one-character strings.
Digits == <<"0", "1", "2", "3", "4", "5", "6", "7", "8", "9">>
Upper == <<"A", "B", "C", "D", "E", "F", "G", "H", "I", "J", "K", "L", "M",
           "N", "O", "P", "Q", "R", "S", "T", "U", "V", "W", "X", "Y", "Z">>
Lower == <<"a", "b", "c", "d", "e", "f", "g", "h", "i", "j", "k", "l", "m",
           "n", "o", "p", "q", "r", "s", "t", "u", "v", "w", "x", "y", "z">>
RECURSIVE str(_)
str(n) == IF n < Len(Digits) THEN <<Digits[n + 1]>>
          ELSE str(n \div Len(Digits)) \o <<Digits[(n % Len(Digits)) + 1]>>
replace(s, old, new) == [i \in 1..Len(s) |-> IF s[i] = old THEN new ELSE s[i]]
lower(s) ==
  [i \in 1..Len(s) |->
     IF \E j \in 1..Len(Upper) : Upper[j] = s[i]
       THEN Lower[CHOOSE j \in 1..Len(Upper) : Upper[j] = s[i]]
       ELSE s[i]]

\* Lines 1093-1097: the name under which the course's function is looked up.
CalcPrefix == <<"c", "a", "l", "c", "u", "l", "a", "t", "e", "_",
                "g", "r", "a", "d", "e", "_">>
safe_num(c) == replace(replace(c.number, "-", "_"), ".", "_")
calc_name(c) == CalcPrefix \o safe_num(c) \o <<"_">> \o lower(c.semester) \o str(c.year)

\* Line 1098: getattr(user_calculators, calc_name, None), tested at line 1100.
getattr_always(module, name) == TRUE
getattr(module, name) == name \in module

NoProposal == [name |-> "", value |-> "", grade_id |-> NoId,
               assignment_id |-> NoId, weight |-> "CALC"]
NoLast == [op |-> "none", student |-> NoId, p |-> NoProposal, err |-> "",
           aid |-> NoId, calls |-> <<>>]

\* What calc_func does with one student's rows: it raises, or it returns a
\* list of proposals (a dict result is transposed to that list, lines 1123-1127).
SeqsUpTo(S, n) == UNION {[1..k -> S] : k \in 0..n}
RunProposals ==
  {[NoProposal EXCEPT !.name = "Final", !.value = "5"],
   [NoProposal EXCEPT !.name = "Final", !.value = "5", !.weight = "1"],
   [NoProposal EXCEPT !.assignment_id = 2, !.value = "F"],
   [NoProposal EXCEPT !.grade_id = 2, !.value = "5"],
   [NoProposal EXCEPT !.name = "Final", !.value = "None"]}
Raises == [raises |-> TRUE, props |-> <<>>]
Outputs == {Raises} \cup {[raises |-> FALSE, props |-> q] : q \in SeqsUpTo(RunProposals, MaxProposals)}

\* examples/calculators.py: grade_id names an existing grade and assignment_id
\* an existing assignment.
WellFormed(out, A, G) ==
  \A i \in 1..Len(out.props) :
     /\ out.props[i].grade_id # NoId => \E g \in G : g.id = out.props[i].grade_id
     /\ out.props[i].assignment_id # NoId => \E a \in A : a.id = out.props[i].assignment_id

EnteredGradesUnfiltered(rows, s) == {r \in rows : r.student_id = s}

\* Lines 1113-1114: the rows of one student handed to calc_func.
EnteredGrades(rows, s) == {r \in rows : r.student_id = s /\ r.weight # "CALC"}

OnCalcErrorAbort(i) == "raised"

\* Lines 1118-1122: `except Exception ... continue` goes on with the next student.
OnCalcError(i) == IF i < Len(Roster) THEN "loop" ELSE "done"

OnSaveErrorSkipStudent(i) == IF i < Len(Roster) THEN "loop" ELSE "done"

\* Lines 1129-1130: save_calculated_grade is called outside the try block, so
\* what it raises leaves calculate_grades.
OnSaveError(i) == "raised"

\* End of one student's iteration of `for s in students`.
AfterStudent(i) == IF i < Len(Roster) THEN "loop" ELSE "done"

Zero == [s \in Students |-> 0]

\* Lines 1093-1110: a run starts; the students and all_grades are read once.
StartRun ==
  /\ pc \in {"idle", "done", "raised"}
  /\ run < MaxRuns
  /\ getattr(user_calculators, calc_name(course))
  /\ run' = run + 1
  /\ pc' = "loop"
  /\ idx' = 1
  /\ pending' = <<>>
  /\ all_grades' = select_grades_for_course_members(assignments, grades, CourseId)
  /\ entered_prev' = {r \in all_grades : r.weight # "CALC"}
  /\ before' = [A |-> assignments, G |-> grades]
  /\ invoked' = {}
  /\ raised_for' = {}
  /\ nprop' = Zero
  /\ nsaved' = Zero
  /\ created' = <<>>
  /\ written' = {}
  /\ last' = [NoLast EXCEPT !.op = "start"]
  /\ UNCHANGED <<assignments, grades, memo, calc_input, auto_created>>
  /\ UNCHANGED env

\* Lines 1100-1104: no function of that name; the message is printed and
\* calculate_grades returns.
NotFound ==
  /\ pc \in {"idle", "done", "raised"}
  /\ run < MaxRuns
  /\ ~getattr(user_calculators, calc_name(course))
  /\ run' = run + 1
  /\ pc' = "idle"
  /\ last' = [NoLast EXCEPT !.op = "notfound"]
  /\ UNCHANGED <<assignments, grades, idx, pending, all_grades, memo, calc_input,
                 invoked, raised_for, nprop, nsaved, created, auto_created,
                 written, before, entered_prev>>
  /\ UNCHANGED env

\* Lines 1112-1127: calc_func is called with the student's entered rows.  It
\* is a deterministic function; what it does for a student is chosen at its
\* first call for that student and is the same in every later run.
CallCalc ==
  /\ pc = "loop"
  /\ LET s == Roster[idx]
         rows == EnteredGrades(all_grades, s)
     IN \E out \in Outputs :
          /\ IF memo[s] # {} THEN out \in memo[s]
                             ELSE WellFormed(out, assignments, grades)
          /\ memo' = [memo EXCEPT ![s] = {out}]
          /\ calc_input' = rows
          /\ invoked' = invoked \cup {s}
          /\ last' = [NoLast EXCEPT !.op = "calc", !.student = s,
                                    !.err = IF out.raises THEN "Exception" ELSE ""]
          /\ IF out.raises
               THEN /\ raised_for' = raised_for \cup {s}
                    /\ pc' = OnCalcError(idx)
                    /\ idx' = IF pc' = "loop" THEN idx + 1 ELSE idx
                    /\ UNCHANGED <<pending, nprop>>
               ELSE /\ nprop' = [nprop EXCEPT ![s] = Len(out.props)]
                    /\ pending' = out.props
                    /\ pc' = IF out.props = <<>> THEN AfterStudent(idx) ELSE "saving"
                    /\ idx' = IF pc' = "loop" THEN idx + 1 ELSE idx
                    /\ UNCHANGED raised_for
  /\ UNCHANGED <<assignments, grades, run, all_grades, nsaved, created,
                 auto_created, written, before, entered_prev>>
  /\ UNCHANGED env

\* Lines 1129-1130: the next proposal of the current student is saved.
SaveNext ==
  /\ pc = "saving"
  /\ LET s == Roster[idx]
         p == Head(pending)
         r == save_calculated_grade(assignments, grades, CourseId, s, p)
         new == r.A \ assignments
     IN /\ assignments' = r.A
        /\ grades' = r.G
        /\ last' = [op |-> "save", student |-> s, p |-> p, err |-> r.err,
                    aid |-> r.aid, calls |-> r.calls]
        /\ created' = IF new = {} THEN created
                      ELSE Append(created, (CHOOSE a \in new : TRUE).name)
        /\ auto_created' = auto_created \cup {a.id : a \in {b \in new : b.weight = "CALC"}}
        /\ IF r.err # ""
             THEN /\ pc' = OnSaveError(idx)
                  /\ pending' = <<>>
                  /\ UNCHANGED <<nsaved, written>>
             ELSE /\ nsaved' = [nsaved EXCEPT ![s] = @ + 1]
                  /\ written' = IF r.aid = NoId THEN written ELSE written \cup {<<s, r.aid>>}
                  /\ pending' = Tail(pending)
                  /\ pc' = IF Tail(pending) = <<>> THEN AfterStudent(idx) ELSE "saving"
        /\ idx' = IF pc' = "loop" THEN idx + 1 ELSE idx
  /\ UNCHANGED <<run, all_grades, memo, calc_input, invoked, raised_for, nprop,
                 before, entered_prev>>
  /\ UNCHANGED env

\* The sample rows of insert_sample_data, cut down to one course: an entered
\* assignment with a grade, and what earlier runs may have left behind.
Paper == [id |-> 1, course_id |-> CourseId, name |-> "Paper", weight |-> "1"]
Final2 == [id |-> 2, course_id |-> CourseId, name |-> "Final", weight |-> "CALC"]
Final3 == [id |-> 3, course_id |-> CourseId, name |-> "Final", weight |-> "CALC"]
Final4 == [id |-> 4, course_id |-> OtherCourse, name |-> "Final", weight |-> "CALC"]
Grade1 == [id |-> 1, assignment_id |-> 1, student_id |-> 1, value |-> "3"]
Grade2 == [id |-> 2, assignment_id |-> 2, student_id |-> 1, value |-> "3"]
Grade3 == [id |-> 3, assignment_id |-> 2, student_id |-> 1, value |-> NULL]

\* The first course of insert_sample_data, and a calculators.py that defines
\* its function; no calculator helper has been called.
Fall == <<"F", "a", "l", "l">>
Spring == <<"S", "p", "r", "i", "n", "g">>
SampleCourse == [number |-> <<"2", "5", "A">>, semester |-> Fall, year |-> 2012]
NoCall == [fn |-> "none"]
\* ui.py, lines 72-79 and 100-112: no course and no assignment selected, and
\* no connection until a database is opened; no table is being edited.
NoConnection == "None"
NoCommand == [action |-> "", idx |-> NoId, len |-> 0, err |-> "", popped |-> FALSE]
InitUI ==
  /\ ui = [db_connection |-> NoConnection, course_id |-> NoId,
           assignment_id |-> NoId, courses |-> {}, assignments |-> {}]
  /\ table = [open |-> FALSE, editable_rows |-> <<>>, cmd |-> NoCommand]

InitEnv ==
  /\ course = SampleCourse
  /\ user_calculators = {calc_name(SampleCourse)}
  /\ call = NoCall
  /\ InitUI

InitHistory ==
  /\ run = 0
  /\ idx = 1
  /\ pending = <<>>
  /\ all_grades = {}
  /\ memo = [s \in Students |-> {}]
  /\ calc_input = {}
  /\ last = NoLast
  /\ invoked = {}
  /\ raised_for = {}
  /\ nprop = Zero
  /\ nsaved = Zero
  /\ created = <<>>
  /\ auto_created = {}
  /\ written = {}
  /\ before = [A |-> assignments, G |-> grades]
  /\ entered_prev = {}

Init ==
  /\ assignments \in {{Paper}, {Paper, Final2}, {Paper, Final2, Final3},
                      {Paper, Final4}}
  /\ grades \in {{Grade1}, {Grade1, Grade2}}
  /\ Grade2 \in grades => assignments = {Paper, Final2}
  /\ pc = "idle"
  /\ InitHistory
  /\ InitEnv

Next == StartRun \/ CallCalc \/ SaveNext

Spec == Init /\ [][Next]_vars

\* One call of save_calculated_grade on its own: a run that has reached its
\* first proposal, on any of the databases below and for any proposal.
InitSave ==
  /\ assignments \in {{Paper} \cup X : X \in SUBSET {Final2, Final3, Final4}}
  /\ grades \in {{Grade1} \cup X : X \in SUBSET {Grade2, Grade3}}
  /\ grades \cap {Grade2, Grade3} # {} => Final2 \in assignments
  /\ pc = "saving"
  /\ run = 1
  /\ idx \in 1..Len(Roster)
  /\ pending \in {<<p>> : p \in Proposals}
  /\ all_grades = select_grades_for_course_members(assignments, grades, CourseId)
  /\ memo = [s \in Students |-> {}]
  /\ calc_input = EnteredGrades(all_grades, Roster[idx])
  /\ last = [NoLast EXCEPT !.op = "calc", !.student = Roster[idx]]
  /\ invoked = {Roster[i] : i \in 1..idx}
  /\ raised_for = {}
  /\ nprop = [Zero EXCEPT ![Roster[idx]] = 1]
  /\ nsaved = Zero
  /\ created = <<>>
  /\ auto_created = {}
  /\ written = {}
  /\ before = [A |-> assignments, G |-> grades]
  /\ entered_prev = {}
  /\ InitEnv

SpecSave == InitSave /\ [][SaveNext]_vars

\* calculate_grades for a course and a calculators.py that may or may not
\* define the course's function: course numbers with and without the
\* characters that are replaced, and modules that are empty (no calculators.py,
\* config/__init__.py), define the looked-up names, or define other spellings.
Courses ==
  [number : {<<"2", "5", "A">>, <<"2", "5", "-", "A">>, <<"2", ".", "5">>},
   semester : {Fall, Spring},
   year : {2012, 2013}]
NoCalculators == {}
SampleCalculators == {<<"c", "a", "l", "c", "u", "l", "a", "t", "e", "_", "g", "r", "a", "d", "e", "_", "2", "5", "A", "_", "f", "a", "l", "l", "2", "0", "1", "2">>}
SafeCalculators ==
  {<<"c", "a", "l", "c", "u", "l", "a", "t", "e", "_", "g", "r", "a", "d", "e", "_", "2", "5", "_", "A", "_", "f", "a", "l", "l", "2", "0", "1", "2">>,
   <<"c", "a", "l", "c", "u", "l", "a", "t", "e", "_", "g", "r", "a", "d", "e", "_", "2", "_", "5", "_", "s", "p", "r", "i", "n", "g", "2", "0", "1", "3">>}
OtherCalculators ==
  {<<"c", "a", "l", "c", "u", "l", "a", "t", "e", "_", "g", "r", "a", "d", "e", "_", "2", "5", "-", "A", "_", "f", "a", "l", "l", "2", "0", "1", "2">>,
   <<"c", "a", "l", "c", "u", "l", "a", "t", "e", "_", "g", "r", "a", "d", "e", "_", "2", "5", "A", "_", "F", "a", "l", "l", "2", "0", "1", "2">>,
   <<"c", "a", "l", "c", "u", "l", "a", "t", "e", "_", "g", "r", "a", "d", "e", "_", "2", ".", "5", "_", "s", "p", "r", "i", "n", "g", "2", "0", "1", "3">>}
InitLookup ==
  /\ assignments = {Paper}
  /\ grades = {Grade1}
  /\ pc = "idle"
  /\ InitHistory
  /\ course \in Courses
  /\ user_calculators \in {NoCalculators, SampleCalculators, SafeCalculators,
                           OtherCalculators}
  /\ call = NoCall
  /\ InitUI

NextLookup == StartRun \/ NotFound \/ CallCalc \/ SaveNext

SpecLookup == InitLookup /\ [][NextLookup]_vars

\* -------------------------------------------------- calculator_helpers.py
\* Numbers are exact fractions num/den; float('Nan'), the two infinities and
\* None are values of their own.  Fin(h) is h hundredths.
Fin(h) == [k |-> "fin", num |-> h, den |-> 100]
NaN == [k |-> "nan", num |-> 0, den |-> 1]
PosInf == [k |-> "inf", num |-> 1, den |-> 1]
NegInf == [k |-> "inf", num |-> -1, den |-> 1]
None == [k |-> "none", num |-> 0, den |-> 1]

\* Comparison of floats: every comparison with NaN is false.
Eq(a, b) ==
  /\ a.k \in {"fin", "inf"} /\ b.k = a.k
  /\ IF a.k = "inf" THEN a.num = b.num ELSE a.num * b.den = b.num * a.den
Lt(a, b) ==
  /\ a.k \in {"fin", "inf"} /\ b.k \in {"fin", "inf"}
  /\ CASE a.k = "inf" /\ b.k = "inf" -> a.num < b.num
       [] a.k = "inf" -> a.num < 0
       [] b.k = "inf" -> b.num > 0
       [] OTHER -> a.num * b.den < b.num * a.den
Le(a, b) == Lt(a, b) \/ Eq(a, b)
Min(S) == CHOOSE x \in S : \A y \in S : x <= y

\* Lines 25-61: (letter grade, point_value, exclusive_max, inclusive_min); the
\* last band of each scale has the dummy limits (-inf, inf).
Band(g, v, mx, mn) == [grade |-> g, val |-> Fin(v), mx |-> Fin(mx), mn |-> Fin(mn)]
Incomplete == [grade |-> "I", val |-> NaN, mx |-> NegInf, mn |-> PosInf]
PointBands ==
  <<
    Band("A+", 420, 500, 420),
    Band("A", 400, 420, 385),
    Band("A-", 370, 385, 350),
    Band("B+", 330, 350, 315),
    Band("B", 300, 315, 285),
    Band("B-", 270, 285, 250),
    Band("C+", 230, 250, 215),
    Band("C", 200, 215, 185),
    Band("C-", 170, 185, 150),
    Band("D+", 130, 150, 115),
    Band("D", 100, 115, 85),
    Band("D-", 70, 85, 30),
    Band("F", 0, 30, -100)
  >>
PercentBands ==
  <<
    Band("A+", 10000, 20000, 9700),
    Band("A", 9500, 9700, 9400),
    Band("A-", 9200, 9400, 9000),
    Band("B+", 8800, 9000, 8700),
    Band("B", 8500, 8700, 8400),
    Band("B-", 8200, 8400, 8000),
    Band("C+", 7800, 8000, 7700),
    Band("C", 7500, 7700, 7400),
    Band("C-", 7200, 7400, 7000),
    Band("D+", 6800, 7000, 6700),
    Band("D", 6500, 6700, 6400),
    Band("D-", 6200, 6400, 6000),
    Band("F", 5800, 6000, 0)
  >>
POINTS_gap == [PointBands EXCEPT ![2].mn = Fin(390)] \o <<Incomplete>>
POINTS == PointBands \o <<Incomplete>>
PERCENTS_F50 == [PercentBands EXCEPT ![13].mn = Fin(5000)] \o <<Incomplete>>
PERCENTS == PercentBands \o <<Incomplete>>
ScaleNames == {"POINTS", "PERCENTS"}
ScaleOf(name) == IF name = "POINTS" THEN POINTS ELSE PERCENTS

\* Lines 80-87: the value of the first band whose label equals letter_grade.
letter_to_number_max(letter_grade, scale) ==
  LET hits == {i \in 1..Len(scale) : scale[i].grade = letter_grade}
  IN IF hits = {} THEN NaN ELSE scale[Min(hits)].mx
letter_to_number(letter_grade, scale) ==
  LET hits == {i \in 1..Len(scale) : scale[i].grade = letter_grade}
  IN IF hits = {} THEN NaN ELSE scale[Min(hits)].val

\* Line 93: math.isnan(n), which raises TypeError for None.
isnan_never(n) == FALSE
isnan(n) == n.k = "nan"

\* Line 98: mn <= n < mx.
band_matches_upper_inclusive(n, b) == Lt(b.mn, n) /\ Le(n, b.mx)
band_matches(n, b) == Le(b.mn, n) /\ Lt(n, b.mx)

\* Lines 100-102: no band matched.
no_band_incomplete(scale) ==
  [err |-> "", grade |-> "I", scanned |-> Len(scale)]
no_band(scale) ==
  [err |-> "ValueError", grade |-> "", scanned |-> Len(scale)]

\* Lines 89-102; scanned is the number of bands the loop looked at.
number_to_letter(n, scale) ==
  IF n.k = "none" THEN [err |-> "TypeError", grade |-> "", scanned |-> 0]
  ELSE IF isnan(n) THEN [err |-> "", grade |-> "I", scanned |-> 0]
  ELSE LET hits == {i \in 1..Len(scale) : band_matches(n, scale[i])}
       IN IF hits = {} THEN no_band(scale)
          ELSE [err |-> "", grade |-> scale[Min(hits)].grade, scanned |-> Min(hits)]

\* Arguments of the conversions: every bound and value of the two scales and
\* the hundredths next to them, the whole percentages, and the special values;
\* labels, and strings that are not labels.
Bounds(scale) == UNION {{scale[i].val, scale[i].mx, scale[i].mn} : i \in 1..Len(scale) - 1}
Near(S) == {Fin(x.num + d) : x \in S, d \in {-1, 0, 1}}
Numbers ==
  Near(Bounds(POINTS)) \cup Near(Bounds(PERCENTS))
  \cup {Fin(100 * p) : p \in 0..100} \cup {NaN, PosInf, NegInf, None}
Labels(scale) == {scale[i].grade : i \in 1..Len(scale)}
Letters == Labels(POINTS) \cup {"a", "a+", "f", "i", "E", "A ", "", "None"}

\* The caller calls one conversion; number_to_letter is called on a number of
\* the caller's, or on what letter_to_number has just returned.
NumberToLetter ==
  /\ call = NoCall
  /\ \E sc \in ScaleNames, n \in Numbers :
       call' = [fn |-> "number_to_letter", scale |-> sc, n |-> n, letter |-> "",
                chained |-> FALSE, out |-> number_to_letter(n, ScaleOf(sc))]
  /\ UNCHANGED <<assignments, grades, pc, run, idx, pending, all_grades, memo,
                 calc_input, last, invoked, raised_for, nprop, nsaved, created,
                 auto_created, written, before, entered_prev, course,
                 user_calculators, ui, table>>
LetterToNumber ==
  /\ call = NoCall
  /\ \E sc \in ScaleNames, l \in Letters :
       call' = [fn |-> "letter_to_number", scale |-> sc, letter |-> l,
                out |-> letter_to_number(l, ScaleOf(sc))]
  /\ UNCHANGED <<assignments, grades, pc, run, idx, pending, all_grades, memo,
                 calc_input, last, invoked, raised_for, nprop, nsaved, created,
                 auto_created, written, before, entered_prev, course,
                 user_calculators, ui, table>>
NumberToLetterOfResult ==
  /\ call.fn = "letter_to_number"
  /\ call' = [fn |-> "number_to_letter", scale |-> call.scale, n |-> call.out,
              letter |-> call.letter, chained |-> TRUE,
              out |-> number_to_letter(call.out, ScaleOf(call.scale))]
  /\ UNCHANGED <<assignments, grades, pc, run, idx, pending, all_grades, memo,
                 calc_input, last, invoked, raised_for, nprop, nsaved, created,
                 auto_created, written, before, entered_prev, course,
                 user_calculators, ui, table>>

InitHelpers ==
  /\ assignments = {Paper}
  /\ grades = {Grade1}
  /\ pc = "idle"
  /\ InitHistory
  /\ InitEnv
NextScale == NumberToLetter \/ LetterToNumber \/ NumberToLetterOfResult
SpecScale == InitHelpers /\ [][NextScale]_vars

\* Arithmetic on the numbers above: anything combined with NaN is NaN.
Add(a, b) ==
  IF a.k = "nan" \/ b.k = "nan" THEN NaN
  ELSE IF a.den = b.den THEN [k |-> "fin", num |-> a.num + b.num, den |-> a.den]
  ELSE [k |-> "fin", num |-> a.num * b.den + b.num * a.den, den |-> a.den * b.den]
Mul(a, b) ==
  IF a.k = "nan" \/ b.k = "nan" THEN NaN
  ELSE [k |-> "fin", num |-> a.num * b.num, den |-> a.den * b.den]
DivInt(a, n) ==
  IF a.k = "nan" THEN NaN ELSE [k |-> "fin", num |-> a.num, den |-> a.den * n]
RECURSIVE sum(_)
sum(values) ==
  IF values = <<>> THEN [k |-> "fin", num |-> 0, den |-> 1]
  ELSE IF Len(values) = 1 THEN values[1]
  ELSE Add(sum(SubSeq(values, 1, Len(values) - 1)), values[Len(values)])
zip(a, b) == [i \in 1..(IF Len(a) <= Len(b) THEN Len(a) ELSE Len(b)) |-> <<a[i], b[i]>>]

\* Lines 242-246: filter(...) keeps what is neither None nor a float NaN (the
\* result is a list, as filter returns one in the Python 2 this module is
\* written for).
RECURSIVE remove_none_only(_)
remove_none_only(values) ==
  IF values = <<>> THEN <<>>
  ELSE (IF Head(values).k = "none" THEN <<>> ELSE <<Head(values)>>)
       \o remove_none_only(Tail(values))
RECURSIVE remove_none_and_nan(_)
remove_none_and_nan(values) ==
  IF values = <<>> THEN <<>>
  ELSE (IF Head(values).k \in {"none", "nan"} THEN <<>> ELSE <<Head(values)>>)
       \o remove_none_and_nan(Tail(values))

\* sum raises TypeError when it comes to a None or to a string.
HasNone(values) == \E i \in 1..Len(values) : values[i].k \in {"none", "str"}
Returned(v) == [err |-> "", val |-> v]
TypeError == [err |-> "TypeError", val |-> None]

\* Lines 133-139.
unweighted_average(values, filter_nan) ==
  LET vs == IF filter_nan THEN remove_none_and_nan(values) ELSE values
  IN IF vs = <<>> THEN Returned(NaN)
     ELSE IF HasNone(vs) THEN TypeError
     ELSE Returned(DivInt(sum(vs), Len(vs)))

\* Line 150: sum([n[0] * n[1] for n in zip(values, weights)]).
sum_of_products_normalized(pairs) ==
  DivInt(sum([i \in 1..Len(pairs) |-> Mul(pairs[i][1], pairs[i][2])]),
         sum([i \in 1..Len(pairs) |-> pairs[i][2]]).num)
sum_of_products(pairs) ==
  sum([i \in 1..Len(pairs) |-> Mul(pairs[i][1], pairs[i][2])])

\* Lines 141-150.
weighted_average(values, weights, filter_nan) ==
  LET vs == IF filter_nan THEN remove_none_and_nan(values) ELSE values
      pairs == zip(vs, weights)
  IN IF vs = <<>> THEN Returned(NaN)
     ELSE IF \E i \in 1..Len(pairs) : pairs[i][1].k = "none" THEN TypeError
     ELSE Returned(sum_of_products(pairs))

\* Arguments of the averages: lists of grades 3.0 and 4.0, NaN and None, and
\* lists of the weights 0.5 and 0.25.
AvgValues == {Fin(300), Fin(400), NaN, None}
AvgWeights == {Fin(50), Fin(25)}
UnweightedAverage ==
  /\ call = NoCall
  /\ \E values \in SeqsUpTo(AvgValues, MaxLen), f \in BOOLEAN :
       call' = [fn |-> "unweighted_average", values |-> values, filter_nan |-> f,
                out |-> unweighted_average(values, f)]
  /\ UNCHANGED <<assignments, grades, pc, run, idx, pending, all_grades, memo,
                 calc_input, last, invoked, raised_for, nprop, nsaved, created,
                 auto_created, written, before, entered_prev, course,
                 user_calculators, ui, table>>
WeightedAverage ==
  /\ call = NoCall
  /\ \E values \in SeqsUpTo(AvgValues, MaxLen),
        weights \in SeqsUpTo(AvgWeights, MaxLen), f \in BOOLEAN :
       call' = [fn |-> "weighted_average", values |-> values, weights |-> weights,
                filter_nan |-> f, out |-> weighted_average(values, weights, f)]
  /\ UNCHANGED <<assignments, grades, pc, run, idx, pending, all_grades, memo,
                 calc_input, last, invoked, raised_for, nprop, nsaved, created,
                 auto_created, written, before, entered_prev, course,
                 user_calculators, ui, table>>
NextAverage == UnweightedAverage \/ WeightedAverage
SpecAverage == InitHelpers /\ [][NextAverage]_vars

\* Division of one number by another; a zero divisor is ZeroDivisionError,
\* which the callers below turn into their error result.
DivByZero(b) == b.k = "fin" /\ b.num = 0
Div(a, b) ==
  IF a.k = "nan" \/ b.k = "nan" THEN NaN
  ELSE LET n == IF a.den = b.den THEN a.num ELSE a.num * b.den
           d == IF a.den = b.den THEN b.num ELSE a.den * b.num
       IN IF d < 0 THEN [k |-> "fin", num |-> -n, den |-> -d]
          ELSE [k |-> "fin", num |-> n, den |-> d]

\* Line 157: `if not s`, true of a zero sum and false of NaN.
is_zero_never(s) == FALSE
is_zero(s) == s.k = "fin" /\ s.num = 0

\* Lines 152-159.
points_to_weights(point_values) ==
  LET s == sum(point_values)
  IN IF is_zero(s) THEN Returned([i \in 1..Len(point_values) |-> NaN])
     ELSE IF DivByZero(s) THEN [err |-> "ZeroDivisionError", val |-> <<>>]
     ELSE Returned([i \in 1..Len(point_values) |-> Div(point_values[i], s)])

\* Arguments of points_to_weights: lists of the point values 0, 25 and -25
\* and NaN.
PointValues == {Fin(0), Fin(2500), Fin(-2500), NaN}
PointsToWeights ==
  /\ call = NoCall
  /\ \E point_values \in SeqsUpTo(PointValues, MaxPoints) :
       call' = [fn |-> "points_to_weights", point_values |-> point_values,
                out |-> points_to_weights(point_values)]
  /\ UNCHANGED <<assignments, grades, pc, run, idx, pending, all_grades, memo,
                 calc_input, last, invoked, raised_for, nprop, nsaved, created,
                 auto_created, written, before, entered_prev, course,
                 user_calculators, ui, table>>
NextWeights == PointsToWeights
SpecWeights == InitHelpers /\ [][NextWeights]_vars

\* Grade values as the database hands them out: numbers, None, and strings.
Str(s) == [k |-> "str", num |-> 0, den |-> 1, s |-> s]

\* Python 2 orders values of different kinds: None before every number,
\* every number before every string; strings compare character by character,
\* which for the labels of a scale is the order of SortedLabels.
SortedLabels == <<"A", "A+", "A-", "B", "B+", "B-", "C", "C+", "C-",
                  "D", "D+", "D-", "F", "I">>
KindRank(v) == CASE v.k = "none" -> 0 [] v.k = "str" -> 2 [] OTHER -> 1
StrRank(s) == CHOOSE i \in 1..Len(SortedLabels) : SortedLabels[i] = s
PyLt(a, b) ==
  IF KindRank(a) # KindRank(b) THEN KindRank(a) < KindRank(b)
  ELSE CASE a.k = "str" -> StrRank(a.s) < StrRank(b.s)
         [] a.k = "none" -> FALSE
         [] OTHER -> Lt(a, b)

\* The builtins min and max: the first element, replaced by each later one
\* that is smaller (greater); ValueError for an empty list.
py_min_first(values) ==
  IF values = <<>> THEN [err |-> "ValueError", val |-> None]
  ELSE Returned(values[1])
RECURSIVE py_min(_)
py_min(values) ==
  IF values = <<>> THEN [err |-> "ValueError", val |-> None]
  ELSE IF Len(values) = 1 THEN Returned(values[1])
  ELSE LET m == py_min(SubSeq(values, 1, Len(values) - 1)).val
           x == values[Len(values)]
       IN Returned(IF PyLt(x, m) THEN x ELSE m)
RECURSIVE py_max(_)
py_max(values) ==
  IF values = <<>> THEN [err |-> "ValueError", val |-> None]
  ELSE IF Len(values) = 1 THEN Returned(values[1])
  ELSE LET m == py_max(SubSeq(values, 1, Len(values) - 1)).val
           x == values[Len(values)]
       IN Returned(IF PyLt(m, x) THEN x ELSE m)

\* list.index(x) for an x that min or max took from the list: the first
\* position holding x itself or a value equal to it (a NaN is found as itself).
Same(a, b) == IF a.k = "nan" THEN b.k = "nan" ELSE Eq(a, b)
index(values, x) == Min({i \in 1..Len(values) : Same(x, values[i])})

\* Lines 64-66; a value that is not a string equals no label.
letter_to_points(v) ==
  IF v.k = "str" THEN letter_to_number(v.s, POINTS) ELSE NaN
to_points(letter_grades) ==
  [i \in 1..Len(letter_grades) |-> letter_to_points(letter_grades[i])]

\* Lines 105-117 (map returns the list that .index needs, as in Python 2).
letter_grade_min_points(letter_grades) == py_min(to_points(letter_grades))
letter_grade_min(letter_grades) ==
  LET pts == to_points(letter_grades)
      mn == py_min(pts)
  IN IF mn.err # "" THEN mn ELSE Returned(letter_grades[index(pts, mn.val)])
letter_grade_max(letter_grades) ==
  LET pts == to_points(letter_grades)
      mx == py_max(pts)
  IN IF mx.err # "" THEN mx ELSE Returned(letter_grades[index(pts, mx.val)])

\* Lines 119-131, called by mean_for_type without weights.
letter_grade_average(letter_grades) == unweighted_average(to_points(letter_grades), FALSE)

\* Line 176: the numeric grade types.
is_numeric_type_no_percentage(grade_type) == grade_type \in {"points", "4points"}
is_numeric_type(grade_type) == grade_type \in {"points", "4points", "percentage"}

\* The functions passed to calculation_for_type, by name, and the call of one
\* of them.  numeric_func and letter_func are functions of a caller that
\* record which of them was called and with which list.
numeric_func_called(grade_list) == Returned([k |-> "numeric_func", arg |-> grade_list])
letter_func_called(grade_list) == Returned([k |-> "letter_func", arg |-> grade_list])
NoFunc == "None"
apply(func, grade_list) ==
  CASE func = "min" -> py_min(grade_list)
    [] func = "max" -> py_max(grade_list)
    [] func = "unweighted_average" -> unweighted_average(grade_list, FALSE)
    [] func = "letter_grade_min" -> letter_grade_min(grade_list)
    [] func = "letter_grade_max" -> letter_grade_max(grade_list)
    [] func = "letter_grade_average" -> letter_grade_average(grade_list)
    [] func = "numeric_func" -> numeric_func_called(grade_list)
    [] func = "letter_func" -> letter_func_called(grade_list)

\* Lines 161-185.  letter_func is NoFunc when none was passed.
calculation_for_type(grade_list, grade_type, numeric_func, letter_func, scale, filter_nan) ==
  LET gs == IF filter_nan THEN remove_none_and_nan(grade_list) ELSE grade_list
      conversion(g) == IF g.k = "str" THEN letter_to_number(g.s, scale) ELSE NaN
  IN IF is_numeric_type(grade_type) THEN apply(numeric_func, gs)
     ELSE IF grade_type = "letter"
       THEN IF letter_func # NoFunc THEN apply(letter_func, gs)
            ELSE apply(numeric_func, [i \in 1..Len(gs) |-> conversion(gs[i])])
     ELSE [err |-> "ValueError", val |-> None]

\* Lines 187-201.
min_for_type(values, grade_type) ==
  calculation_for_type(values, grade_type, "min", "letter_grade_min", POINTS, FALSE)
max_for_type(values, grade_type) ==
  calculation_for_type(values, grade_type, "max", "letter_grade_max", POINTS, FALSE)
mean_for_type(values, grade_type, filter_nan) ==
  calculation_for_type(values, grade_type, "unweighted_average",
                       "letter_grade_average", POINTS, filter_nan)

\* Arguments of min_for_type and max_for_type: lists of letter grades, numbers
\* and None, and the grade types, known and unknown.
GradeValues == {Str("A"), Str("B"), Str("C"), Str("I"), Fin(300), Fin(400), None}
GradeTypes == {"letter", "points", "4points", "percentage", "percent", "None"}
MinForType ==
  /\ call = NoCall
  /\ \E values \in SeqsUpTo(GradeValues, MaxLen), t \in GradeTypes :
       call' = [fn |-> "min_for_type", values |-> values, grade_type |-> t,
                out |-> min_for_type(values, t)]
  /\ UNCHANGED <<assignments, grades, pc, run, idx, pending, all_grades, memo,
                 calc_input, last, invoked, raised_for, nprop, nsaved, created,
                 auto_created, written, before, entered_prev, course,
                 user_calculators, ui, table>>
MaxForType ==
  /\ call = NoCall
  /\ \E values \in SeqsUpTo(GradeValues, MaxLen), t \in GradeTypes :
       call' = [fn |-> "max_for_type", values |-> values, grade_type |-> t,
                out |-> max_for_type(values, t)]
  /\ UNCHANGED <<assignments, grades, pc, run, idx, pending, all_grades, memo,
                 calc_input, last, invoked, raised_for, nprop, nsaved, created,
                 auto_created, written, before, entered_prev, course,
                 user_calculators, ui, table>>
NextMinMax == MinForType \/ MaxForType
SpecMinMax == InitHelpers /\ [][NextMinMax]_vars

\* calculation_for_type called by a caller with functions of its own.
CalculationForType ==
  /\ call = NoCall
  /\ \E values \in SeqsUpTo(GradeValues, MaxLen), t \in GradeTypes,
        has_letter_func \in BOOLEAN, s \in ScaleNames, filter_nan \in BOOLEAN :
       call' = [fn |-> "calculation_for_type", values |-> values,
                grade_type |-> t, has_letter_func |-> has_letter_func,
                scale |-> s, filter_nan |-> filter_nan,
                out |-> calculation_for_type(values, t, "numeric_func",
                                             IF has_letter_func THEN "letter_func"
                                             ELSE NoFunc,
                                             ScaleOf(s), filter_nan)]
  /\ UNCHANGED <<assignments, grades, pc, run, idx, pending, all_grades, memo,
                 calc_input, last, invoked, raised_for, nprop, nsaved, created,
                 auto_created, written, before, entered_prev, course,
                 user_calculators, ui, table>>
NextDispatch == CalculationForType
SpecDispatch == InitHelpers /\ [][NextDispatch]_vars

\* calculator_helpers.py, lines 204-226: every row of rows is appended to the
\* four lists; no row is left out.
unpack_entered_grades(rows) ==
  [values |-> [i \in 1..Len(rows) |-> rows[i].value],
   weights |-> [i \in 1..Len(rows) |-> rows[i].weight],
   types |-> [i \in 1..Len(rows) |-> rows[i].grade_type],
   assignment_names |-> [i \in 1..Len(rows) |-> rows[i].assignment_name]]

\* Rows as select_grades_for_course_members yields them: entered grades and
\* grades of calculated assignments, whose weight is 'CALC'.
UnpackRows ==
  [value : {Str("A"), Str("B")}, weight : {"CALC", "0.5"},
   grade_type : {"letter"}, assignment_name : {"Paper", "Final"}]
UnpackEnteredGrades ==
  /\ call = NoCall
  /\ \E rows \in SeqsUpTo(UnpackRows, MaxLen) :
       call' = [fn |-> "unpack_entered_grades", rows |-> rows,
                out |-> unpack_entered_grades(rows)]
  /\ UNCHANGED <<assignments, grades, pc, run, idx, pending, all_grades, memo,
                 calc_input, last, invoked, raised_for, nprop, nsaved, created,
                 auto_created, written, before, entered_prev, course,
                 user_calculators, ui, table>>
NextUnpack == UnpackEnteredGrades
SpecUnpack == InitHelpers /\ [][NextUnpack]_vars

\* ------------------------------------------------- reports.py: GradeReport
MaxMembers == 2      \* members of the course of a report
MaxAssignments == 2  \* assignments of the course of a report

\* str(e) of a caught exception: its type and the call that raised it.
Raised(type, by) == [type |-> type, by |-> by]
NoError == Raised("", "")

points_to_letter(p) == number_to_letter(p, POINTS)
percentage_to_letter(p) == number_to_letter(p, PERCENTS)

\* Line 110: 'if avg:', false for None and for 0.0.
avg_is_true(avg) == avg.k # "none" /\ ~is_zero(avg)

\* The value of an expression that is evaluated once, given as the set of it.
TheOnly(S) == CHOOSE x \in S : TRUE

\* Lines 105-118, with the results of lines 106-108: each is the value
\* returned or the exception raised.
stats_of(grade_type, mn, mx, mean) ==
  LET avg == IF isnan(mean.val) THEN None ELSE mean.val
      to_letter == IF grade_type \in {"4points", "letter"} THEN points_to_letter(avg)
                   ELSE percentage_to_letter(avg)
      converts == avg_is_true(avg) /\ grade_type \in {"4points", "letter", "percentage"}
      result(e, letter_avg) ==
        [err |-> e, mn |-> mn.val, mx |-> mx.val, avg |-> avg, letter_avg |-> letter_avg]
      failed(e) == [err |-> e, mn |-> None, mx |-> None, avg |-> None, letter_avg |-> "None"]
  IN IF mn.err # "" THEN failed(Raised(mn.err, "min_for_type"))
     ELSE IF mx.err # "" THEN failed(Raised(mx.err, "max_for_type"))
     ELSE IF mean.err # "" THEN failed(Raised(mean.err, "mean_for_type"))
     ELSE IF converts /\ to_letter.err # "" THEN failed(Raised(to_letter.err, "number_to_letter"))
     ELSE result(NoError, IF converts THEN to_letter.grade ELSE "None")

\* Lines 99-118.  types[0] raises IndexError when there are no rows.
calculate_stats(rows) ==
  IF rows = <<>>
  THEN [err |-> Raised("IndexError", "calculate_stats"), mn |-> None, mx |-> None,
        avg |-> None, letter_avg |-> "None"]
  ELSE TheOnly(UNION {{stats_of(up.types[1], mn, mx, mean) :
                         mn \in {min_for_type(up.values, up.types[1])},
                         mx \in {max_for_type(up.values, up.types[1])},
                         mean \in {mean_for_type(up.values, up.types[1], TRUE)}} :
                      up \in {unpack_entered_grades(rows)}})

\* freqs_for_letters and freqs_for_numbers are called at lines 126 and 137 and
\* are not at hand: the number of the values that are the label, or that lie
\* in the band (mn <= v < mx).
freqs_for_letters(values, label) ==
  Cardinality({i \in 1..Len(values) : values[i].k = "str" /\ values[i].s = label})
freqs_for_numbers(values, bin) ==
  Cardinality({i \in 1..Len(values) :
                 /\ values[i].k \in {"fin", "inf"}
                 /\ Le(bin.mn, values[i]) /\ Lt(values[i], bin.mx)})

\* Lines 128-131: the name of the scale of a numeric grade type.
histogram_scale(grade_type) ==
  IF grade_type = "4points" THEN "POINTS"
  ELSE IF grade_type = "percent" THEN "PERCENTS" ELSE ""

\* Lines 124-137: the bins in the order of the scale, each with its frequency.
\* The text drawn from them has one line per bin, in this order.
histogram_of(values, grade_type) ==
  LET scale == ScaleOf(histogram_scale(grade_type))
  IN IF grade_type = "letter"
       THEN [err |-> NoError,
             hist |-> [i \in 1..Len(POINTS) |->
                         [bin |-> POINTS[i].grade,
                          freq |-> freqs_for_letters(values, POINTS[i].grade)]]]
     ELSE IF histogram_scale(grade_type) = ""
       THEN [err |-> Raised("ValueError", "histogram"), hist |-> <<>>]
     ELSE [err |-> NoError,
           hist |-> [i \in 1..(Len(scale) - 1) |->
                       [bin |-> [mx |-> scale[i].mx, mn |-> scale[i].mn],
                        freq |-> freqs_for_numbers(values, scale[i])]]]

\* Lines 120-151.  types[0] raises IndexError when there are no rows.
histogram(rows) ==
  IF rows = <<>> THEN [err |-> Raised("IndexError", "histogram"), hist |-> <<>>]
  ELSE TheOnly({histogram_of(up.values, up.types[1]) : up \in {unpack_entered_grades(rows)}})

\* Line 84: the exceptions run catches.
Caught(e) == e.type \in {"ValueError", "TypeError"}

\* Lines 70-94: the record appended for the assignment, st and h being what
\* calculate_stats and histogram returned or raised.
stats_record(a, rows, st, h) ==
  LET missing_rows == SelectSeq(rows, LAMBDA g : g.grade_id = NoId)
      missing == [i \in 1..Len(missing_rows) |-> missing_rows[i].student_id]
      e == IF st.err # NoError THEN st.err ELSE h.err
  IN IF e = NoError
       THEN [err |-> NoError,
             rec |-> [assignment_id |-> a.id, assignment_name |-> a.name,
                      grade_type |-> a.grade_type, weight |-> a.weight,
                      min |-> st.mn, max |-> st.mx, mean |-> st.avg,
                      mean_as_letter |-> st.letter_avg, hist |-> h.hist,
                      missing_students |-> missing]]
     ELSE [err |-> IF Caught(e) THEN NoError ELSE e,
           rec |-> [assignment_id |-> a.id, assignment_name |-> a.name,
                    unavailable |-> e, weight |-> a.weight,
                    missing_students |-> missing]]

\* Lines 68-94: the record of one assignment, or the exception that ends run.
assignment_stats(a, all_rows) ==
  TheOnly(UNION {{stats_record(a, rows, st, h) :
                    st \in {calculate_stats(rows)}, h \in {histogram(rows)}} :
                 rows \in {SelectSeq(all_rows, LAMBDA g : g.assignment_id = a.id)}})

\* Lines 57-97: stats holds the records appended before an exception that is
\* not caught, if there is one, leaves run.
stats_until_uncaught(per) ==
  LET uncaught == {i \in 1..Len(per) : per[i].err # NoError}
      n == IF uncaught = {} THEN Len(per) ELSE Min(uncaught) - 1
  IN [err |-> IF uncaught = {} THEN NoError ELSE per[Min(uncaught)].err,
      stats |-> [i \in 1..n |-> per[i].rec]]
run_report(course_assignments, all_rows) ==
  TheOnly({stats_until_uncaught(per) :
             per \in {[i \in 1..Len(course_assignments) |->
                         assignment_stats(course_assignments[i], all_rows)]}})

\* The course of a report: its assignments, and for each member and each
\* assignment the value of the member's grade, None where there is none.
ReportTypes == {"letter", "points", "4points", "percentage", "None"}
ReportValues == {Str("A"), Str("F"), Fin(0), Fin(300), None}
ReportNames == <<"Paper", "Final">>
ReportCourses ==
  UNION {[members : {n},
          values : SeqsUpTo([1..n -> ReportValues], MaxAssignments) \ {<<>>},
          types : SeqsUpTo(ReportTypes, MaxAssignments) \ {<<>>}] : n \in 0..MaxMembers}
report_assignments(c) ==
  [i \in 1..Len(c.values) |->
     [id |-> i, name |-> ReportNames[((i - 1) % Len(ReportNames)) + 1],
      grade_type |-> c.types[i], weight |-> "1"]]

\* db.select_grades_for_course_members, with the fields the report reads: a
\* row for each member and each assignment of the course, with grade_id None
\* where the member has no grade.
RECURSIVE flatten(_)
flatten(lists) == IF lists = <<>> THEN <<>> ELSE Head(lists) \o flatten(Tail(lists))
report_rows(c) ==
  flatten([i \in 1..Len(c.values) |->
     [s \in 1..c.members |->
        [assignment_id |-> i, student_id |-> s,
         grade_id |-> IF c.values[i][s] = None THEN NoId ELSE i * MaxMembers + s,
         value |-> c.values[i][s], weight |-> "1", grade_type |-> c.types[i],
         assignment_name |-> report_assignments(c)[i].name]]])

RunReport ==
  /\ call = NoCall
  /\ \E c \in ReportCourses :
       /\ Len(c.values) = Len(c.types)
       /\ \E course_assignments \in {report_assignments(c)}, all_rows \in {report_rows(c)} :
            \E stats \in {run_report(course_assignments, all_rows)} :
              call' = [fn |-> "GradeReport.run", course |-> c,
                       assignments |-> course_assignments, out |-> stats]
  /\ UNCHANGED <<assignments, grades, pc, run, idx, pending, all_grades, memo,
                 calc_input, last, invoked, raised_for, nprop, nsaved, created,
                 auto_created, written, before, entered_prev, course,
                 user_calculators, ui, table>>
\* calculate_stats on the rows of one assignment.
stats_rows(values, grade_type) ==
  [s \in 1..Len(values) |->
     [assignment_id |-> 1, student_id |-> s,
      grade_id |-> IF values[s] = None THEN NoId ELSE s,
      value |-> values[s], weight |-> "1", grade_type |-> grade_type,
      assignment_name |-> ReportNames[1]]]
CalculateStats ==
  /\ call = NoCall
  /\ \E values \in SeqsUpTo(ReportValues, MaxMembers), t \in ReportTypes :
       \E rows \in {stats_rows(values, t)} :
         call' = [fn |-> "calculate_stats", values |-> values, grade_type |-> t,
                  out |-> calculate_stats(rows)]
  /\ UNCHANGED <<assignments, grades, pc, run, idx, pending, all_grades, memo,
                 calc_input, last, invoked, raised_for, nprop, nsaved, created,
                 auto_created, written, before, entered_prev, course,
                 user_calculators, ui, table>>
NextReport == RunReport \/ CalculateStats
SpecReport == InitHelpers /\ [][NextReport]_vars

\* ------------------------------------------------ ui.py: selection state
MaxCourseId == 2      \* highest id given to a course
MaxAssignmentId == 3  \* highest id given to an assignment
GradeDb == "gradedb"

\* db.connect, create_or_update_course, create_or_update_assignment,
\* delete_course_etc and delete_assignment_and_grades are called but not at
\* hand.  A new row gets the id after the highest of its table (INTEGER
\* PRIMARY KEY, db.py 57-86); delete_course_etc deletes the course with its
\* assignments, as the warning at ui.py 447-451 says, and
\* delete_assignment_and_grades the assignment.
next_id(ids) == IF ids = {} THEN 1 ELSE Max(ids) + 1
create_or_update_course(u) ==
  [u EXCEPT !.courses = @ \cup {next_id(@)}]
create_or_update_assignment(u, course_id) ==
  [u EXCEPT !.assignments =
     @ \cup {[id |-> next_id({a.id : a \in @}), course_id |-> course_id]}]
delete_course_etc(u, course_id) ==
  [u EXCEPT !.courses = @ \ {course_id},
            !.assignments = {a \in @ : a.course_id # course_id}]
delete_assignment_and_grades(u, assignment_id) ==
  [u EXCEPT !.assignments = {a \in @ : a.id # assignment_id}]
course_assignments(u, course_id) == {a \in u.assignments : a.course_id = course_id}

\* Lines 226-236.
close_database(u) ==
  IF u.db_connection # NoConnection
  THEN [u EXCEPT !.db_connection = NoConnection, !.course_id = NoId,
                 !.assignment_id = NoId]
  ELSE u

\* Lines 239-261: connects says whether db.connect returned a connection; if
\* it raised, and the user has done with retrying, no connection is set.
change_database(u, connects) ==
  LET closed == close_database(u)
  IN IF connects THEN [closed EXCEPT !.db_connection = GradeDb] ELSE closed

\* Lines 596-622: most_recent is the assignment of the course last due, NoId
\* when none has a due date in the past.
select_last_due_assignment(u, most_recent) == [u EXCEPT !.assignment_id = most_recent]
LastDue(u, course_id) == {NoId} \cup {a.id : a \in course_assignments(u, course_id)}

\* Lines 465-481.
select_course(u, c, use_last_due_assignment, most_recent) ==
  LET selected == IF u.course_id # c
                  THEN [u EXCEPT !.course_id = c, !.assignment_id = NoId]
                  ELSE u
  IN IF use_last_due_assignment THEN select_last_due_assignment(selected, most_recent)
     ELSE selected

\* Line 459: 'self.assignment_id in existing_assignments' looks for the id, a
\* number, among the rows of the assignments; a row is equal to no number.
row_equals_id(r, x) == FALSE
id_in_rows(x, rows) == \E r \in rows : row_equals_id(r, x)

\* Lines 439-463: confirmed is the answer to 'Delete anyway?'.
delete_course(u, c, confirmed) ==
  LET existing_assignments == course_assignments(u, c)
      no_course == IF u.course_id = c THEN [u EXCEPT !.course_id = NoId] ELSE u
      deselected == IF id_in_rows(no_course.assignment_id, existing_assignments)
                    THEN [no_course EXCEPT !.assignment_id = NoId]
                    ELSE no_course
  IN IF existing_assignments # {} /\ ~confirmed THEN u
     ELSE delete_course_etc(deselected, c)

\* Lines 553-568: existing_grades is whether the assignment has grades.
delete_assignment(u, a, existing_grades, confirmed) ==
  LET deselected == IF u.assignment_id = a THEN [u EXCEPT !.assignment_id = NoId]
                    ELSE u
  IN IF existing_grades /\ ~confirmed THEN u
     ELSE delete_assignment_and_grades(deselected, a)

\* Lines 570-574.
select_assignment(u, a) == [u EXCEPT !.assignment_id = a]

\* The menu actions.  require (lines 42-62) lets a method start only once the
\* attribute it requires is set.
Connected == ui.db_connection # NoConnection
CourseSelected == Connected /\ ui.course_id # NoId
UIStep(u) ==
  /\ ui' = u
  /\ UNCHANGED <<assignments, grades, pc, run, idx, pending, all_grades, memo,
                 calc_input, last, invoked, raised_for, nprop, nsaved, created,
                 auto_created, written, before, entered_prev, course,
                 user_calculators, call, table>>
CloseDatabase ==
  /\ ui.db_connection \in {NoConnection, GradeDb}
  /\ UIStep(close_database(ui))
ChangeDatabase ==
  /\ ui.db_connection \in {NoConnection, GradeDb}
  /\ \E connects \in BOOLEAN : UIStep(change_database(ui, connects))
CreateCourse ==
  /\ Connected /\ next_id(ui.courses) <= MaxCourseId
  /\ UIStep(create_or_update_course(ui))
SelectCourse ==
  /\ Connected
  /\ \E c \in ui.courses, use_last \in BOOLEAN :
       \E most_recent \in LastDue(ui, c) :
         UIStep(select_course(ui, c, use_last, most_recent))
DeleteCourse ==
  /\ Connected
  /\ \E c \in ui.courses, confirmed \in BOOLEAN : UIStep(delete_course(ui, c, confirmed))
CreateAssignment ==
  /\ CourseSelected /\ next_id({a.id : a \in ui.assignments}) <= MaxAssignmentId
  /\ UIStep(create_or_update_assignment(ui, ui.course_id))
SelectAssignment ==
  /\ CourseSelected
  /\ \E a \in course_assignments(ui, ui.course_id) : UIStep(select_assignment(ui, a.id))
DeleteAssignment ==
  /\ CourseSelected
  /\ \E a \in course_assignments(ui, ui.course_id), existing_grades \in BOOLEAN,
        confirmed \in BOOLEAN :
       UIStep(delete_assignment(ui, a.id, existing_grades, confirmed))
SelectLastDueAssignment ==
  /\ CourseSelected
  /\ \E most_recent \in LastDue(ui, ui.course_id) :
       UIStep(select_last_due_assignment(ui, most_recent))
NextUI ==
  \/ CloseDatabase \/ ChangeDatabase \/ CreateCourse \/ SelectCourse
  \/ DeleteCourse \/ CreateAssignment \/ SelectAssignment \/ DeleteAssignment
  \/ SelectLastDueAssignment
SpecUI == InitHelpers /\ [][NextUI]_vars

\* ------------------------------------------------------ ui.py: edit_table
MaxRows == 3  \* rows of the table handed to edit_table, and of the table edited

\* validators.py, lines 33-43: n is int(s); the least value is allowed and
\* the greatest is not.
number_in_range(n, mn, mx) ==
  IF ~(mn <= n /\ n < mx) THEN [err |-> "ValueError", n |-> NoId]
  ELSE [err |-> "", n |-> n]
int_in_range(n, mn, mx) == number_in_range(n, mn, mx)

\* What the user types, stripped and in lower case: a first letter, or none,
\* and the number that int makes of the rest, which is not always a number.
NotAnInt == -99
Typed == [letter : {"d", "e", "c", ""}, number : (-1..(MaxRows + 1)) \cup {NotAnInt}]

\* Lines 1280-1294.  The range is that of 0 .. len(editable_rows), the length
\* being that of the table as it is when the command is typed.
validator(s, editable_rows) ==
  LET checked == IF s.number = NotAnInt THEN [err |-> "ValueError", n |-> NoId]
                 ELSE int_in_range(s.number, 0, Len(editable_rows) + 1)
  IN IF s.letter = "c" THEN [err |-> "", action |-> "c", idx |-> NoId]
     ELSE [err |-> checked.err, action |-> IF s.letter = "" THEN "s" ELSE s.letter,
           idx |-> checked.n]

\* editable_rows.pop(idx) and editable_rows[idx] = new_row, idx counted from 0.
pop(rows, i) == [j \in 1..(Len(rows) - 1) |-> IF j <= i THEN rows[j] ELSE rows[j + 1]]
set_row(rows, i, new_row) == [rows EXCEPT ![i + 1] = new_row]

\* Lines 1296-1344, one turn of the loop: the command typed is validated and
\* applied.  returned is what editor, creator, deleter or selector returns: a
\* row or None (NoId) for editor and creator, a truth value for the others.
\* editable_rows[idx] raises IndexError when idx is the length of the table;
\* the loop catches KeyboardInterrupt only, so the error leaves edit_table.
Rows == 1..MaxRows
edit_table_command(t, s, new_row, truth) ==
  LET v == validator(s, t.editable_rows)
      rows == t.editable_rows
      past_end == v.action # "c" /\ v.idx >= Len(rows)
      done(rs, open, err, popped) ==
        [open |-> open, editable_rows |-> rs,
         cmd |-> [action |-> v.action, idx |-> v.idx, len |-> Len(rows),
                  err |-> err, popped |-> popped]]
  IN IF v.err # "" THEN t
     ELSE IF past_end THEN done(rows, FALSE, "IndexError", FALSE)
     ELSE IF v.action = "e"
       THEN done(IF new_row # NoId THEN set_row(rows, v.idx, new_row) ELSE rows,
                 TRUE, "", FALSE)
     ELSE IF v.action = "d"
       THEN done(IF truth THEN pop(rows, v.idx) ELSE rows, TRUE, "", truth)
     ELSE IF v.action = "c"
       THEN done(IF new_row # NoId THEN Append(rows, new_row) ELSE rows, TRUE, "", FALSE)
     ELSE done(rows, ~truth, "", FALSE)

TableStep(t) ==
  /\ table' = t
  /\ UNCHANGED <<assignments, grades, pc, run, idx, pending, all_grades, memo,
                 calc_input, last, invoked, raised_for, nprop, nsaved, created,
                 auto_created, written, before, entered_prev, course,
                 user_calculators, call, ui>>
\* Line 1277: editable_rows is a copy of the rows passed.
EditTable ==
  /\ ~table.open
  /\ \E rows \in SeqsUpTo(Rows, MaxRows) :
       TableStep([open |-> TRUE, editable_rows |-> rows, cmd |-> NoCommand])
TableCommand ==
  /\ table.open
  /\ \E s \in Typed, new_row \in Rows \cup {NoId}, truth \in BOOLEAN :
       /\ (s.letter = "c" /\ new_row # NoId) => Len(table.editable_rows) < MaxRows
       /\ TableStep(edit_table_command(table, s, new_row, truth))
\* Line 1339: Ctrl-C ends the loop.
KeyboardInterrupt ==
  /\ table.open
  /\ TableStep([table EXCEPT !.open = FALSE])
NextTable == EditTable \/ TableCommand \/ KeyboardInterrupt
SpecTable == InitHelpers /\ [][NextTable]_vars

\* ------------------------------------------------------------------ claims
EndOfRun == pc \in {"done", "raised"}
EnteredUnchanged == {r \in all_grades : r.weight # "CALC"} = entered_prev
GradeRowsOf(G, s, a) == {g \in G : g.student_id = s /\ g.assignment_id = a}
HasIdentifier(p) == p.name # "" \/ p.grade_id # NoId \/ p.assignment_id # NoId
ByName(p) == p.name # "" /\ p.grade_id = NoId /\ p.assignment_id = NoId /\ p.value # "None"
Matching(A, n) == {a \in A : a.course_id = CourseId /\ a.name = n}
Saved == last.op = "save"

\* C1: a run that started from the same entered rows as the run before it
\* ends with as many assignment rows and as many grade rows as it started
\* with, and every (student, assignment) pair it stored a grade for has
\* exactly one grade row, the one it had before the run, with the same value.
C1_Idempotent ==
  (run >= 2 /\ EndOfRun /\ EnteredUnchanged) =>
     /\ Cardinality(assignments) = Cardinality(before.A)
     /\ Cardinality(grades) = Cardinality(before.G)
     /\ \A w \in written :
          /\ Cardinality(GradeRowsOf(grades, w[1], w[2])) = 1
          /\ GradeRowsOf(grades, w[1], w[2]) = GradeRowsOf(before.G, w[1], w[2])

\* A second run completes on unchanged entered rows, having stored both
\* students' grades under an assignment the first run created.
C1_Witness ==
  /\ run = 2 /\ pc = "done" /\ EnteredUnchanged
  /\ auto_created # {} /\ created = <<>>
  /\ \E a \in auto_created : <<1, a>> \in written /\ <<2, a>> \in written

C2_Inv ==
  /\ \A s \in raised_for : nsaved[s] = 0 /\ \A w \in written : w[1] # s
  /\ (last.op = "calc" /\ last.err = "Exception") => pc \in {"loop", "done"}
  /\ pc = "raised" => last.op = "save"
  /\ pc = "done" => /\ invoked = Students
                    /\ \A s \in Students \ raised_for : nsaved[s] = nprop[s]
C2_Step ==
  (last'.op = "calc" /\ last'.err = "Exception") =>
     /\ assignments' = assignments
     /\ grades' = grades
     /\ (idx < Len(Roster) => pc' = "loop" /\ idx' = idx + 1)

\* C2: when calc_func raises for a student, nothing is stored for that
\* student, the tables are left as they are, the run goes on with the next
\* student and never ends raising because of it; a run that completes has
\* called calc_func for every student and saved every proposal of the
\* students it did not raise for.
C2_FailureIsolation == []C2_Inv /\ [][C2_Step]_vars

\* A run completes in which calc_func raised for the first student and both
\* proposals of the second were saved.
C2_Witness ==
  /\ pc = "done" /\ raised_for = {1} /\ nprop[2] = 2 /\ nsaved[2] = 2
  /\ \E w \in written : w[1] = 2

\* C3: the rows handed to calc_func for a student are exactly the rows of that
\* student that the run read at its start for assignments of the course whose
\* weight is not 'CALC'; no row of an assignment that a run created with
\* weight 'CALC' is ever among them.
C3_NoFeedback ==
  last.op = "calc" =>
     /\ \A r \in calc_input :
          /\ r.student_id = last.student
          /\ r.weight # "CALC"
          /\ \E a \in before.A : a.id = r.assignment_id /\ a.course_id = CourseId
                                 /\ a.weight # "CALC"
          /\ r.assignment_id \notin auto_created
     /\ \A g \in before.G :
          (/\ g.student_id = last.student
           /\ \E a \in before.A : a.id = g.assignment_id /\ a.course_id = CourseId
                                  /\ a.weight # "CALC")
          => \E r \in calc_input : r.grade_id = g.id /\ r.value = g.value

\* The second run calls calc_func for a student who holds a grade under an
\* assignment the first run created.
C3_Witness ==
  /\ last.op = "calc" /\ run = 2 /\ calc_input # {}
  /\ \E g \in grades : g.student_id = last.student /\ g.assignment_id \in auto_created

\* C4: a proposal whose value is 0 or False is not rejected as missing, and
\* once save_calculated_grade has stored it under the resolved assignment,
\* the student's grade row for that assignment holds exactly that value.
C4_FalsyValuePersists ==
  (Saved /\ last.p.value \in {"0", "False"}) =>
     /\ last.err # "MissingValue"
     /\ (last.err = "" /\ last.aid # NoId) =>
          \E g \in grades : /\ g.student_id = last.student
                            /\ g.assignment_id = last.aid
                            /\ g.value = last.p.value

\* C5: a proposal that names what it is for but carries no value (value None,
\* or no 'value' key, which binds the default '') fails with the
\* missing-value error and leaves both tables as they were.
C5_AbsentValueRejected ==
  (Saved /\ HasIdentifier(last.p) /\ last.p.value \in {"", "None"}) =>
     /\ last.err = "MissingValue"
     /\ assignments = before.A
     /\ grades = before.G

\* C6: a proposal with none of name, grade_id and assignment_id fails with the
\* missing-identifier error before any db.py call, and both tables are as
\* they were.
C6_MissingIdentifier ==
  (Saved /\ ~HasIdentifier(last.p)) =>
     /\ last.err = "MissingIdentifier"
     /\ last.calls = <<>>
     /\ assignments = before.A
     /\ grades = before.G

\* A proposal with a value but no identifier was refused.
C6_Witness ==
  Saved /\ ~HasIdentifier(last.p) /\ last.p.value = "5" /\ last.err = "MissingIdentifier"

\* One save of a by-name proposal: the one assignment of its name in the
\* course is reused and none is created, or, there being none, exactly one is
\* created, in the course, with that name, and of weight 'CALC' when wantCalc.
C7_Step(wantCalc(_)) ==
  (pc = "saving" /\ ByName(Head(pending))) =>
     LET p == Head(pending)
         m == Matching(assignments, p.name)
         new == assignments' \ assignments
     IN /\ assignments \subseteq assignments'
        /\ Cardinality(m) = 1 => new = {} /\ \A a \in m : last'.aid = a.id
        /\ m = {} => /\ Cardinality(new) = 1
                     /\ \A a \in new : /\ a.course_id = CourseId
                                       /\ a.name = p.name
                                       /\ wantCalc(p) => a.weight = "CALC"
                                       /\ last'.aid = a.id
CreatedOncePerName ==
  \A i, j \in 1..Len(created) : created[i] = created[j] => i = j
AnyProposal(p) == TRUE
GivesNoWeight(p) == p.weight = "CALC"

C8_Step ==
  (/\ pc = "saving"
   /\ ByName(Head(pending))
   /\ Cardinality(Matching(assignments, Head(pending).name)) > 1)
  => /\ last'.err = "MultipleRecordsFound"
     /\ pc' = "raised"
     /\ assignments' = assignments
     /\ grades' = grades

\* C8: a by-name proposal whose name matches more than one assignment of the
\* course makes save_calculated_grade raise MultipleRecordsFound with both
\* tables left as they were, and the error leaves calculate_grades.
C8_AmbiguousIsFatal == [][C8_Step]_vars

\* The run ended raising MultipleRecordsFound at a by-name proposal of the
\* second student.
C8_Witness ==
  /\ pc = "raised" /\ Saved /\ last.err = "MultipleRecordsFound"
  /\ ByName(last.p) /\ last.student = 2

C10_GradeIdOnlyUpdates ==
  (Saved /\ last.p.grade_id # NoId /\ last.p.value # "None") =>
     /\ last.err = ""
     /\ last.calls = <<"update_grade">>
     /\ assignments = before.A
     /\ Cardinality(grades) = Cardinality(before.G)
     /\ \A g \in before.G :
          IF g.id = last.p.grade_id
            THEN [g EXCEPT !.value = last.p.value] \in grades
            ELSE g \in grades

\* A proposal carrying grade_id 1 together with a name and an assignment_id
\* was saved, and grade 1 holds its value under its old assignment.
C10_Witness ==
  /\ Saved /\ last.err = ""
  /\ last.p.grade_id = 1 /\ last.p.name = "Final" /\ last.p.assignment_id = 2
  /\ last.p.value = "F"
  /\ \E g \in grades : g.id = 1 /\ g.value = "F" /\ g.assignment_id = 1

Registered == calc_name(course) \in user_calculators

\* C11: when calculators.py defines no function under the course's name,
\* every call of calculate_grades ends with the not-found report and without
\* raising: no function was invoked, nothing is left to save, and the
\* assignment and grade rows are the ones there were at the start.
C11_NotFoundNoEffect ==
  ~Registered =>
     /\ pc = "idle"
     /\ run > 0 => last.op = "notfound"
     /\ invoked = {} /\ \A s \in Students : memo[s] = {}
     /\ pending = <<>> /\ written = {} /\ created = <<>>
     /\ assignments = before.A /\ grades = before.G

\* calculate_grades was called twice for course 25-A of Fall 2012 with a
\* calculators.py that spells the name with the '-' and reported not-found.
C11_Witness ==
  /\ run = 2 /\ last.op = "notfound" /\ pc = "idle"
  /\ course.number = <<"2", "5", "-", "A">> /\ course.semester = Fall /\ course.year = 2012
  /\ user_calculators = OtherCalculators

N2L == call.fn = "number_to_letter"
L2N == call.fn = "letter_to_number"
Finite(n) == n.k = "fin"
NonSentinel(scale) == 1..(Len(scale) - 1)
ScaleMin(scale) == scale[Len(scale) - 1].mn
ScaleMax(scale) == scale[1].mx
InScale(n, scale) == Finite(n) /\ Le(ScaleMin(scale), n) /\ Lt(n, ScaleMax(scale))
Within(n, b) == Le(b.mn, n) /\ Lt(n, b.mx)

\* C12: for a number inside the scale's range number_to_letter returns the
\* label of the first band, in declared order, with lower <= n < upper; a
\* number equal to the bound two adjacent bands share gets the higher of the
\* two grades, and every percentage from 97 to 100 gets 'A+'.
C12_FirstBandInclusiveLower ==
  (N2L /\ InScale(call.n, ScaleOf(call.scale))) =>
     LET scale == ScaleOf(call.scale)
         n == call.n
     IN /\ call.out.err = ""
        /\ \E i \in 1..Len(scale) :
             /\ Within(n, scale[i])
             /\ \A j \in 1..(i - 1) : ~Within(n, scale[j])
             /\ call.out.grade = scale[i].grade
        /\ \A i \in NonSentinel(scale) :
             Eq(n, scale[i].mn) => call.out.grade = scale[i].grade
        /\ (call.scale = "PERCENTS" /\ Le(Fin(9700), n) /\ Le(n, Fin(10000)))
             => call.out.grade = "A+"

\* percentage_to_letter(94), the bound shared by 'A' and 'A-', returned 'A'.
C12_Witness ==
  /\ N2L /\ call.scale = "PERCENTS" /\ call.n = Fin(9400)
  /\ call.out.grade = "A" /\ call.out.err = ""

IsNumber(n) == n.k \in {"fin", "inf"}

\* C13 as claimed: percentage_to_letter returns 'F' for every number below 58.
C13_Below58IsF ==
  (N2L /\ call.scale = "PERCENTS" /\ IsNumber(call.n) /\ Lt(call.n, Fin(5800))) =>
     call.out.err = "" /\ call.out.grade = "F"

\* C13 as amended: percentage_to_letter returns 'F' for every number from 0
\* up to, and not including, 58; for a number below 0 it raises ValueError.
C13_ZeroToBelow58IsF ==
  (N2L /\ call.scale = "PERCENTS" /\ IsNumber(call.n) /\ Lt(call.n, Fin(5800))) =>
     IF Le(Fin(0), call.n)
       THEN call.out.err = "" /\ call.out.grade = "F"
       ELSE call.out.err = "ValueError" /\ call.out.grade = ""

\* percentage_to_letter(57.99) returned 'F'.
C13_Witness ==
  /\ N2L /\ call.scale = "PERCENTS" /\ call.n = Fin(5799)
  /\ call.out.grade = "F" /\ call.out.err = ""

\* C14: for a finite value number_to_letter raises ValueError, returning no
\* label, exactly when the value is below the scale's minimum or at or above
\* its maximum: below 0 or from 200 on the percentage scale, below -1.0 or
\* from 5.0 on the 4.0 scale.
C14_RangeError ==
  (N2L /\ Finite(call.n)) =>
     LET lo == IF call.scale = "PERCENTS" THEN Fin(0) ELSE Fin(-100)
         hi == IF call.scale = "PERCENTS" THEN Fin(20000) ELSE Fin(500)
     IN /\ Eq(lo, ScaleMin(ScaleOf(call.scale)))
        /\ Eq(hi, ScaleMax(ScaleOf(call.scale)))
        /\ (Lt(call.n, lo) \/ Le(hi, call.n)) <=> call.out.err = "ValueError"
        /\ call.out.err = "ValueError" => call.out.grade = ""
        /\ call.out.err \in {"", "ValueError"}

\* points_to_letter(5.0), the exclusive maximum of the 4.0 scale, raised.
C14_Witness ==
  /\ N2L /\ call.scale = "POINTS" /\ call.n = Fin(500)
  /\ call.out.err = "ValueError" /\ call.out.grade = ""

\* C15: number_to_letter applied to what letter_to_number returned for a label
\* of the scale, the label 'I' included, returns that label.
C15_RoundTrip ==
  (N2L /\ call.chained /\ call.letter \in Labels(ScaleOf(call.scale))) =>
     call.out.err = "" /\ call.out.grade = call.letter

\* The round trip of 'A+' on the 4.0 scale, whose value 4.2 is the inclusive
\* lower bound of its band, came back as 'A+'.
C15_Witness ==
  /\ N2L /\ call.chained /\ call.scale = "POINTS" /\ call.letter = "A+"
  /\ call.n = Fin(420) /\ call.out.grade = "A+"

\* C16: number_to_letter returns 'I' for NaN on either scale without raising
\* and without looking at any band; letter_to_number returns NaN, without
\* raising, for every argument that is not exactly a label of the scale.
C16_MissingMapsToMissing ==
  /\ (N2L /\ call.n = NaN) =>
        call.out.err = "" /\ call.out.grade = "I" /\ call.out.scanned = 0
  /\ (L2N /\ call.letter \notin Labels(ScaleOf(call.scale))) => call.out = NaN
  /\ (L2N /\ call.letter \in {"a", "a+", "f", "i"}) => call.out = NaN

\* The NaN that letter_to_number returned for the unknown 'a' was handed to
\* number_to_letter, which returned 'I'.
C16_Witness ==
  /\ N2L /\ call.chained /\ call.letter = "a" /\ call.n = NaN
  /\ call.out.grade = "I" /\ call.out.scanned = 0

WellFormedScale(scale) ==
  /\ scale[Len(scale)].grade = "I"
  /\ \A i \in NonSentinel(scale) :
       /\ scale[i].grade # "I"
       /\ Finite(scale[i].mn) /\ Finite(scale[i].mx) /\ Finite(scale[i].val)
       /\ Lt(scale[i].mn, scale[i].mx)
       /\ Le(scale[i].mn, scale[i].val) /\ Lt(scale[i].val, scale[i].mx)
  /\ \A i \in NonSentinel(scale) : \A j \in NonSentinel(scale) :
       /\ i < j => Lt(scale[j].val, scale[i].val) /\ Le(scale[j].mx, scale[i].mn)
       /\ j = i + 1 => Eq(scale[i].mn, scale[j].mx)

\* C17: POINTS and PERCENTS are listed in strictly descending order, each
\* band's inclusive lower bound is the next band's exclusive upper bound, so
\* that the bands are contiguous and never overlap, each band's value lies
\* inside its band, and the band 'I' matches no number: a number handed to
\* number_to_letter lies in at most one band, in one when it is in range.
C17_ScalesWellFormed ==
  /\ WellFormedScale(POINTS)
  /\ WellFormedScale(PERCENTS)
  /\ (N2L /\ call.n.k # "none") =>
       LET scale == ScaleOf(call.scale)
           in == {i \in NonSentinel(scale) : Within(call.n, scale[i])}
       IN /\ ~Within(call.n, scale[Len(scale)])
          /\ Cardinality(in) <= 1
          /\ InScale(call.n, scale) => Cardinality(in) = 1
          /\ call.out.grade = "I" <=> call.n = NaN

\* points_to_letter(inf): the infinity that bounds the band 'I' is not in it.
C17_Witness ==
  /\ N2L /\ call.scale = "POINTS" /\ call.n = PosInf
  /\ call.out.err = "ValueError"

UAvg == call.fn = "unweighted_average"
WAvg == call.fn = "weighted_average"
Present(values) == SelectSeq(values, LAMBDA v : v.k \notin {"none", "nan"})
AllFinite(values) == \A i \in 1..Len(values) : Finite(values[i])
AllNumbers(values) == \A i \in 1..Len(values) : values[i].k \in {"fin", "nan"}
RECURSIVE Hundredths(_)
Hundredths(values) ==
  IF values = <<>> THEN 0 ELSE Head(values).num + Hundredths(Tail(values))
RECURSIVE TenThousandths(_, _)
TenThousandths(values, weights) ==
  IF values = <<>> THEN 0
  ELSE Head(values).num * Head(weights).num + TenThousandths(Tail(values), Tail(weights))

\* C18: unweighted_average returns the arithmetic mean of a list of numbers,
\* taken over the entries that are neither None nor NaN when filter_nan is
\* set; for a list that is empty, or empty once filtered, it returns NaN; with
\* filter_nan it never raises; ([], filter) gives NaN and ([3.0, NaN], filter)
\* gives 3.0.
C18_UnweightedMean ==
  UAvg =>
    LET vs == IF call.filter_nan THEN Present(call.values) ELSE call.values
        r == call.out
    IN /\ call.filter_nan => r.err = ""
       /\ vs = <<>> => r = Returned(NaN)
       /\ (vs # <<>> /\ AllFinite(vs)) =>
            /\ r.err = "" /\ Finite(r.val)
            /\ r.val.num * 100 * Len(vs) = Hundredths(vs) * r.val.den
       /\ (vs # <<>> /\ AllNumbers(vs) /\ ~AllFinite(vs)) => r = Returned(NaN)
       /\ (call.filter_nan /\ call.values = <<Fin(300), NaN>>) => Eq(r.val, Fin(300))

\* unweighted_average([3.0, NaN, None], filter_nan=True) returned 3.0.
C18_Witness ==
  /\ UAvg /\ call.filter_nan /\ call.values = <<Fin(300), NaN, None>>
  /\ call.out.err = "" /\ Eq(call.out.val, Fin(300))

\* C19: for lists of numbers of equal length, not empty, weighted_average
\* returns the sum of values[i] * weights[i] with the weights as they are
\* given, whatever they sum to; ([4.0, 3.0], [0.5, 0.5]) gives 3.5; for empty
\* values it returns NaN.
C19_WeightedSum ==
  (WAvg /\ ~call.filter_nan) =>
    LET r == call.out
    IN /\ call.values = <<>> => r = Returned(NaN)
       /\ (call.values # <<>> /\ Len(call.values) = Len(call.weights)
           /\ AllNumbers(call.values)) =>
            /\ r.err = ""
            /\ IF AllFinite(call.values)
                 THEN Eq(r.val, [k |-> "fin", den |-> 10000,
                                 num |-> TenThousandths(call.values, call.weights)])
                 ELSE r.val = NaN
       /\ (call.values = <<Fin(400), Fin(300)>> /\ call.weights = <<Fin(50), Fin(50)>>)
            => Eq(r.val, Fin(350))

\* weighted_average([4.0, 3.0], [0.5, 0.25]), weights summing to 0.75,
\* returned 2.75.
C19_Witness ==
  /\ WAvg /\ ~call.filter_nan
  /\ call.values = <<Fin(400), Fin(300)>> /\ call.weights = <<Fin(50), Fin(25)>>
  /\ call.out.err = "" /\ Eq(call.out.val, Fin(275))

\* C20: whenever values, once filtered, and weights differ in length,
\* weighted_average fails with the mismatched-lengths error.
C20_MismatchedLengthsFail ==
  WAvg =>
    LET vs == IF call.filter_nan THEN Present(call.values) ELSE call.values
    IN Len(vs) # Len(call.weights) => call.out.err = "MismatchedLengths"

P2W == call.fn = "points_to_weights"

\* C21: points_to_weights returns, without raising, a list as long as its
\* argument; when the points are finite and their sum is not 0, entry i is
\* points[i] / sum(points); when the sum is 0 every entry is NaN; no entry is
\* ever an infinity; [25, 25, 25, 25] gives four times 0.25 and [0, 0] gives
\* [NaN, NaN].
C21_PointsToWeights ==
  P2W =>
    LET ps == call.point_values
        r == call.out
        total == Hundredths(ps)
    IN /\ r.err = ""
       /\ Len(r.val) = Len(ps)
       /\ \A i \in 1..Len(r.val) : r.val[i].k \in {"fin", "nan"}
       /\ (AllFinite(ps) /\ total # 0) =>
            \A i \in 1..Len(ps) :
              Finite(r.val[i]) /\ r.val[i].num * total = ps[i].num * r.val[i].den
       /\ (AllFinite(ps) /\ total = 0) => \A i \in 1..Len(ps) : r.val[i] = NaN
       /\ ps = <<Fin(2500), Fin(2500), Fin(2500), Fin(2500)>> =>
            \A i \in 1..4 : Eq(r.val[i], Fin(25))
       /\ ps = <<Fin(0), Fin(0)>> => r.val = <<NaN, NaN>>

\* points_to_weights([25, -25, 0]), whose sum is 0 though not every point
\* is, returned three NaN.
C21_Witness ==
  /\ P2W /\ call.point_values = <<Fin(2500), Fin(-2500), Fin(0)>>
  /\ call.out = Returned(<<NaN, NaN, NaN>>)

MinCall == call.fn = "min_for_type"
MaxCall == call.fn = "max_for_type"
ValidLetters(values) ==
  /\ values # <<>>
  /\ \A i \in 1..Len(values) :
       values[i].k = "str" /\ values[i].s \in Labels(POINTS) \ {"I"}
PointsOf(v) == POINTS[CHOOSE i \in 1..Len(POINTS) : POINTS[i].grade = v.s].val
FiniteList(values) == values # <<>> /\ AllFinite(values)

\* C22: for a list of valid letter grades, not empty, min_for_type and
\* max_for_type with type 'letter' return the element of the list, a label,
\* at the lowest index among those whose 4.0-scale value is the least
\* (greatest) of the list; for the numeric types and a list of numbers they
\* return the least (greatest) of the values.
C22_ExtremalElement ==
  (MinCall \/ MaxCall) =>
    LET vs == call.values
        r == call.out
        NoBetter(a, b) == IF MinCall THEN Le(a, b) ELSE Le(b, a)
    IN /\ (call.grade_type = "letter" /\ ValidLetters(vs)) =>
            /\ r.err = "" /\ r.val.k = "str"
            /\ \E i \in 1..Len(vs) :
                 /\ r.val = vs[i]
                 /\ \A j \in 1..Len(vs) : NoBetter(PointsOf(vs[i]), PointsOf(vs[j]))
                 /\ \A j \in 1..(i - 1) : ~Eq(PointsOf(vs[j]), PointsOf(vs[i]))
       /\ (call.grade_type \in {"points", "4points", "percentage"} /\ FiniteList(vs)) =>
            /\ r.err = ""
            /\ \E i \in 1..Len(vs) : r.val = vs[i]
            /\ \A j \in 1..Len(vs) : NoBetter(r.val, vs[j])

\* max_for_type(['B', 'A', 'A'], 'letter') returned 'A'.
C22_Witness ==
  /\ MaxCall /\ call.grade_type = "letter"
  /\ call.values = <<Str("B"), Str("A"), Str("A")>>
  /\ call.out = Returned(Str("A"))

BAC == <<Str("B"), Str("A"), Str("C")>>

\* C23 as claimed: min_for_type(['B', 'A', 'C'], 'letter') is 'A' and
\* max_for_type(['B', 'A', 'C'], 'letter') is 'C'.
C23_MinIsA_MaxIsC ==
  (call.fn \in {"min_for_type", "max_for_type"}
   /\ call.grade_type = "letter" /\ call.values = BAC) =>
     call.out = Returned(Str(IF MinCall THEN "A" ELSE "C"))

\* C23 as amended: min_for_type(['B', 'A', 'C'], 'letter') is 'C', the grade
\* of the least point value, and max_for_type(['B', 'A', 'C'], 'letter') is 'A'.
C23_MinIsC_MaxIsA ==
  (call.fn \in {"min_for_type", "max_for_type"}
   /\ call.grade_type = "letter" /\ call.values = BAC) =>
     call.out = Returned(Str(IF MinCall THEN "C" ELSE "A"))

\* min_for_type(['B', 'A', 'C'], 'letter') returned 'C'.
C23_Witness ==
  MinCall /\ call.grade_type = "letter" /\ call.values = BAC
  /\ call.out = Returned(Str("C"))

CftCall == call.fn = "calculation_for_type"
Converted(values, scale) ==
  [i \in 1..Len(values) |->
     IF values[i].k = "str" /\ values[i].s \in Labels(scale)
     THEN scale[CHOOSE j \in 1..Len(scale) : scale[j].grade = values[i].s].val
     ELSE NaN]

\* C24: calculation_for_type returns numeric_func of the grades for the types
\* 'points', '4points' and 'percentage'; for 'letter' it returns letter_func
\* of the grades when a letter_func was passed and otherwise numeric_func of
\* the grades converted with the scale; for every other type, None included,
\* it raises ValueError and calls neither function.  The grades are the
\* list passed, without its None and NaN entries when filter_nan is set.
C24_Dispatch ==
  CftCall =>
    LET gs == IF call.filter_nan THEN Present(call.values) ELSE call.values
        t == call.grade_type
    IN /\ t \in {"points", "4points", "percentage"} =>
            call.out = Returned([k |-> "numeric_func", arg |-> gs])
       /\ (t = "letter" /\ call.has_letter_func) =>
            call.out = Returned([k |-> "letter_func", arg |-> gs])
       /\ (t = "letter" /\ ~call.has_letter_func) =>
            call.out = Returned([k |-> "numeric_func",
                                 arg |-> Converted(gs, ScaleOf(call.scale))])
       /\ t \notin {"points", "4points", "percentage", "letter"} =>
            call.out = [err |-> "ValueError", val |-> None]

\* calculation_for_type(['A', 'I', 300], 'percentage', f) returned f of the
\* list as passed.
C24_Witness ==
  /\ CftCall /\ call.grade_type = "percentage" /\ ~call.filter_nan
  /\ call.values = <<Str("A"), Str("I"), Fin(300)>>
  /\ call.out = Returned([k |-> "numeric_func", arg |-> call.values])

UnpackCall == call.fn = "unpack_entered_grades"

\* C25: unpack_entered_grades skips every row whose weight is 'CALC' and
\* returns four lists of equal length in which index i of each list describes
\* the same row of the others, in the order of the input.
C25_SkipsCalcRows ==
  UnpackCall =>
    LET kept == SelectSeq(call.rows, LAMBDA r : r.weight # "CALC")
        r == call.out
    IN /\ r.values = [i \in 1..Len(kept) |-> kept[i].value]
       /\ r.weights = [i \in 1..Len(kept) |-> kept[i].weight]
       /\ r.types = [i \in 1..Len(kept) |-> kept[i].grade_type]
       /\ r.assignment_names = [i \in 1..Len(kept) |-> kept[i].assignment_name]

ReportCall == call.fn = "GradeReport.run"
Unavailable(rec) == "unavailable" \in DOMAIN rec
ValuesOf(i) == call.course.values[i]
TypeOf(i) == call.course.types[i]

\* C26: GradeReport.run returns one record for each assignment of the course,
\* in the order of the assignments, and never leaves with an exception; an
\* assignment whose statistics cannot be computed, among them one with no
\* grade rows at all, has an 'unavailable' record.
C26_OneRecordPerAssignment ==
  ReportCall =>
    /\ call.out.err = NoError
    /\ Len(call.out.stats) = Len(call.assignments)
    /\ \A i \in 1..Len(call.out.stats) :
         /\ call.out.stats[i].assignment_id = call.assignments[i].id
         /\ ValuesOf(i) = <<>> => Unavailable(call.out.stats[i])

KnownTypes == {"letter", "points", "4points", "percentage"}
RightKind(values, grade_type) ==
  \A s \in 1..Len(values) :
    values[s].k \in (IF grade_type = "letter" THEN {"str", "none"} ELSE {"fin", "none"})
Entered(values) == \E s \in 1..Len(values) : values[s] # None
ScaleBins(scale) ==
  [i \in 1..(Len(scale) - 1) |-> [mx |-> scale[i].mx, mn |-> scale[i].mn]]
BinsOf(hist) == [i \in 1..Len(hist) |-> hist[i].bin]

\* C27: an assignment of one of the four known grade types that has an entered
\* grade gets a record with min, max, mean and histogram and not an
\* 'unavailable' record; the histogram has a bin for each label of the letter
\* scale, or for each band of the numeric scale but the last, in the order of
\* the scale.
C27_KnownTypesHaveStatistics ==
  ReportCall =>
    \A i \in 1..Len(call.out.stats) :
      (/\ TypeOf(i) \in KnownTypes
       /\ Entered(ValuesOf(i)) /\ RightKind(ValuesOf(i), TypeOf(i))) =>
        LET rec == call.out.stats[i]
        IN /\ ~Unavailable(rec)
           /\ {"min", "max", "mean", "hist"} \subseteq DOMAIN rec
           /\ TypeOf(i) = "letter" =>
                BinsOf(rec.hist) = [j \in 1..Len(POINTS) |-> POINTS[j].grade]
           /\ TypeOf(i) = "4points" => BinsOf(rec.hist) = ScaleBins(POINTS)
           /\ TypeOf(i) = "percentage" => BinsOf(rec.hist) = ScaleBins(PERCENTS)

\* The same for the grade type 'percentage' alone.
C27_PercentageHasStatistics ==
  ReportCall =>
    \A i \in 1..Len(call.out.stats) :
      (/\ TypeOf(i) = "percentage"
       /\ Entered(ValuesOf(i)) /\ RightKind(ValuesOf(i), TypeOf(i))) =>
        ~Unavailable(call.out.stats[i])

StatsCall == call.fn = "calculate_stats"

\* C28: calculate_stats reports the mean None exactly when the mean computed
\* is NaN; when the mean is available, mean_as_letter is number_to_letter of
\* it on the 4.0 scale for the types 'letter' and '4points' and on the
\* percentage scale for 'percentage', a mean of 0 giving 'F'; for 'points'
\* mean_as_letter is None.
C28_MeanAsLetter ==
  (StatsCall /\ call.out.err = NoError) =>
    LET t == call.grade_type
        avg == call.out.avg
        computed == mean_for_type(call.values, t, TRUE).val
    IN /\ (avg = None) <=> (computed.k = "nan")
       /\ (avg # None /\ t \in {"letter", "4points"}) =>
            call.out.letter_avg = number_to_letter(avg, POINTS).grade
       /\ (avg # None /\ t = "percentage") =>
            call.out.letter_avg = number_to_letter(avg, PERCENTS).grade
       /\ t = "points" => call.out.letter_avg = "None"

\* C29: after any sequence of menu actions, when an assignment is selected a
\* course is selected and the assignment exists and is an assignment of that
\* course, and when a course is selected there is a database connection; so
\* deleting the selected course deselects the course and its assignment.
C29_SelectionConsistent ==
  /\ ui.assignment_id # NoId =>
       /\ ui.course_id # NoId
       /\ \E a \in ui.assignments :
            a.id = ui.assignment_id /\ a.course_id = ui.course_id
  /\ ui.course_id # NoId => ui.db_connection # NoConnection

\* The part of C29 that rests on no function of db.py: a selected assignment
\* comes with a selected course.
C29_AssignmentHasCourse == ui.assignment_id # NoId => ui.course_id # NoId

Accepted == table.cmd.action \in {"e", "d", "s"}

\* C30: the row number of every edit, delete or select command that the
\* validator of edit_table accepts is the index of a row of the table as it
\* is when the command is applied, 0 <= idx < len(editable_rows), so no
\* command reads past the end of the table; and a row is removed only when
\* the deleter has returned a true value.
C30_AcceptedIndexInTable ==
  /\ [](Accepted =>
         /\ 0 <= table.cmd.idx /\ table.cmd.idx < table.cmd.len
         /\ table.cmd.err = "")
  /\ [][(table.open /\ Len(table'.editable_rows) < Len(table.editable_rows)) =>
          (table'.cmd.action = "d" /\ table'.cmd.popped)]_vars

\* The last part of C30 alone: a row leaves the table only by a delete command
\* whose deleter returned a true value.
C30_RemovedOnlyOnSuccess ==
  [][(table.open /\ Len(table'.editable_rows) < Len(table.editable_rows)) =>
       (table'.cmd.action = "d" /\ table'.cmd.popped)]_vars
====
